---- MODULE Spec2Model ----
(***************************************************************************)
(* A model of the backtesting workbench: run_backtest (backtest_engine/    *)
(* runner.py) driving the bar loop of backtesting.Backtest for each of the *)
(* repository's strategies, the report step, the optimizer and its cache   *)
(* of optimized parameters (tools/optimizer.py), and the batch runner      *)
(* run_backtests_from_config in its two copies (tools/core.py, main.py)    *)
(* with load_data (backtest_engine/data_loader.py).                        *)
(*                                                                         *)
(* The bar loop, the broker and the order queue are the ones of the        *)
(* backtesting library the repository calls (release 0.6, the first with   *)
(* method='sambo', tools/optimizer.py:35): commission charged at trade     *)
(* open and at trade close, market orders filled at the next bar's open,   *)
(* trades left open at the end of the run (finalize_trades is not passed). *)
(*                                                                         *)
(* Numbers.  Bars are numbered 1..N (Python index k-1).  A price is an     *)
(* integer number of ticks, PS ticks to the currency unit, so that the     *)
(* halves, quarters and eighths the indicators produce are exact.  Money   *)
(* is an integer number of 1/(PS*CD) currency units, CN/CD being the       *)
(* commission rate.  A price that Python tests for truth (sl, tp, stop,     *)
(* limit) is 0 when None.  NaN is <<0, 0>> among the rationals <<n, d>>    *)
(* of the indicators and -1 in the broker's equity array.                  *)
(***************************************************************************)
EXTENDS Integers, Sequences, FiniteSets, TLC

\* ------------------------------------------------------------------ bounds
\* Longest series of bars fed to a run.
MaxBars == 6
\* Largest initial cash of a run, in currency units.
MaxCash == 6

\* Ticks per currency unit.
PS == 2 ^ (MaxBars + 1)
\* Denominator of the commission rate.
CD == 10
\* Money units per currency unit.
MU == PS * CD

\* NaN as an indicator value and as a slot of the equity array.
NaN == <<0, 0>>
NoEquity == 0 - 1
\* The stats object before it exists.
None == [kind |-> "none"]

Min(a, b) == IF a <= b THEN a ELSE b
Max(a, b) == IF a >= b THEN a ELSE b
Abs(a) == IF a < 0 THEN -a ELSE a
Sgn(a) == IF a < 0 THEN -1 ELSE IF a > 0 THEN 1 ELSE 0

\* Floor division for integers a and b > 0 (Python's //).
FloorDiv(a, b) == a \div b

RECURSIVE SumSeq(_)
SumSeq(s) == IF s = <<>> THEN 0 ELSE Head(s) + SumSeq(Tail(s))

RECURSIVE SeqsOver(_, _)
\* All sequences of length n over the set S.
SeqsOver(S, n) ==
    IF n = 0 THEN {<<>>}
    ELSE {Append(s, x) : s \in SeqsOver(S, n - 1), x \in S}

Remove(s, k) == [j \in 1..(Len(s) - 1) |-> IF j < k THEN s[j] ELSE s[j + 1]]
Insert0(s, x) == <<x>> \o s
RemoveIds(s, ids) == SelectSeq(s, LAMBDA o : o.id \notin ids)

VARIABLES
    strategy,      \* run_backtest argument: the strategy class (its __name__)
    params,        \* run_backtest argument: the strategy's parameter values
    data,          \* run_backtest argument: the series, a sequence of bars
    cash,          \* run_backtest argument: initial cash, in money units
    commission,    \* run_backtest argument: the rate's numerator CN (rate CN/CD)
    libFails,      \* environment: bt.run raises the regression ValueError on a zero-trade run
    pc,            \* position inside run_backtest
    i,             \* bar being processed by Backtest.run (0 before the loop)
    start,         \* first bar of the loop (1 + indicator warm-up)
    broker,        \* _Broker: orders, trades, closed_trades, _cash
    equity,        \* _Broker._equity, one slot per bar, NaN where never written
    st,            \* attributes of the strategy instance
    stats,         \* the stats object of run_backtest, None before it exists
    error,         \* the exception propagating out of run_backtest, "none" if none
    runNo,         \* which execution of run_backtest this is
    firstOutcome,  \* what the first execution produced
    opt,           \* StrategyOptimizer.optimize: the search and what it returns
    store,         \* the document results/optimized_params.json
    optimizers,    \* the StrategyOptimizer instances and their optimized_params
    calls,         \* the set_optimized_params calls made so far, in order
    batch,         \* run_backtests_from_config: its arguments, its position, what it collected
    wrapped        \* Backtest is given run_backtest's StrategyWrapper, or the strategy class itself

vars == <<strategy, params, data, cash, commission, libFails, pc, i, start,
          broker, equity, st, stats, error, runNo, firstOutcome, opt,
          store, optimizers, calls, batch, wrapped>>

N == Len(data)

\* ------------------------------------------------------------------ broker
\* backtesting._Broker as run_backtest configures it: Backtest(data, Wrapper,
\* cash=cash, commission=commission), everything else at its default
\* (margin 1, spread 0, trade_on_close False, hedging False,
\* exclusive_orders False, finalize_trades False).

\* _Broker._commission: the relative commission on a fill of `size` units.
Commission(size, price) == Abs(size) * price * commission

\* Trade.pl of an open trade (its _commissions still 0), at the last price.
TradePl(t, last) == t.size * (last - t.entry) * CD

\* As a bug would have it: only the exit fill's commission in the ledger.
ClosedPlExitOnly(c) == c.size * (c.exit - c.entry) * CD - Commission(c.size, c.exit)

\* Trade.pl of a closed trade: the PnL column of the trade ledger.
ClosedPl(c) == c.size * (c.exit - c.entry) * CD - c.commissions

RECURSIVE SumPl(_, _)
SumPl(ts, last) == IF ts = <<>> THEN 0 ELSE TradePl(Head(ts), last) + SumPl(Tail(ts), last)

RECURSIVE SumValue(_, _)
SumValue(ts, last) ==
    IF ts = <<>> THEN 0 ELSE Abs(Head(ts).size) * last * CD + SumValue(Tail(ts), last)

\* _Broker.equity and _Broker.margin_available (leverage 1).
Equity(b, last) == b.cash + SumPl(b.trades, last)
MarginAvailable(b, last) == Max(0, Equity(b, last) - SumValue(b.trades, last))

\* Position.size: the sum of the open trades' sizes.
RECURSIVE SumSize(_)
SumSize(ts) == IF ts = <<>> THEN 0 ELSE Head(ts).size + SumSize(Tail(ts))
PositionSize(b) == SumSize(b.trades)

TradeById(b, tid) == CHOOSE t \in {b.trades[j] : j \in 1..Len(b.trades)} : t.id = tid
HasTrade(b, tid) == \E j \in 1..Len(b.trades) : b.trades[j].id = tid
HasOrder(b, oid) == \E j \in 1..Len(b.orders) : b.orders[j].id = oid
OrderById(b, oid) == CHOOSE o \in {b.orders[j] : j \in 1..Len(b.orders)} : o.id = oid

NewOrder(oid, size, frac, limit, stop, sl, tp, parent) ==
    [id |-> oid, size |-> size, frac |-> frac, limit |-> limit, stop |-> stop,
     sl |-> sl, tp |-> tp, parent |-> parent]

\* _Broker._close_trade: the trade leaves the open trades with its SL/TP
\* orders, enters the ledger, and the exit commission is charged.  `by` is
\* a history field: the order that closed it ("sl", "tp", "close", "fifo",
\* "oom"); sl and tp are the trade's stop-loss and take-profit prices.
CloseTrade(b, tid, price, k, by) ==
    LET t == TradeById(b, tid)
        c == Commission(t.size, price)
    IN [b EXCEPT
          !.trades = SelectSeq(@, LAMBDA x : x.id # tid),
          !.orders = RemoveIds(@, {t.slId, t.tpId} \ {0}),
          !.closed = Append(@, [size |-> t.size, entry |-> t.entry, exit |-> price,
                                ebar |-> t.ebar, xbar |-> k, by |-> by,
                                sl |-> t.sl, tp |-> t.tp,
                                commissions |-> c + Commission(t.size, t.entry)]),
          !.cash = @ + t.size * (price - t.entry) * CD - c]

\* _Broker._reduce_trade: close `size` (opposite in sign) of the trade.
ReduceTrade(b, tid, price, size, k, by) ==
    LET t == TradeById(b, tid)
        left == t.size + size
    IN IF left = 0 THEN CloseTrade(b, tid, price, k, by)
       ELSE LET part == [t EXCEPT !.id = b.nid, !.size = -size, !.slId = 0, !.tpId = 0]
                b1 == [b EXCEPT
                         !.nid = @ + 1,
                         !.trades = Append([j \in 1..Len(@) |->
                                             IF @[j].id = tid THEN [@[j] EXCEPT !.size = left]
                                             ELSE @[j]], part),
                         !.orders = [j \in 1..Len(@) |->
                                      IF @[j].id \in ({t.slId, t.tpId} \ {0})
                                      THEN [@[j] EXCEPT !.size = -left] ELSE @[j]]]
            IN CloseTrade(b1, part.id, price, k, by)

\* _Broker._open_trade: the entry commission is charged; the TP order joins
\* the end of the queue and the SL order its front.
OpenTrade(b, price, size, sl, tp, k) ==
    LET tid == b.nid
        slId == IF sl # 0 THEN tid + 1 ELSE 0
        tpId == IF tp # 0 THEN tid + 2 ELSE 0
        t == [id |-> tid, size |-> size, entry |-> price, ebar |-> k,
              slId |-> slId, tpId |-> tpId, sl |-> sl, tp |-> tp]
        withTp == IF tp # 0
                  THEN Append(b.orders, NewOrder(tpId, -size, FALSE, tp, 0, 0, 0, tid))
                  ELSE b.orders
        withSl == IF sl # 0
                  THEN Insert0(withTp, NewOrder(slId, -size, FALSE, 0, sl, 0, 0, tid))
                  ELSE withTp
    IN [b EXCEPT !.nid = @ + 3,
                 !.trades = Append(@, t),
                 !.cash = @ - Commission(size, price),
                 !.orders = withSl]

\* An order filled for the trade it hangs on (its SL, its TP or a
\* Trade.close() order): the trade is reduced by the order's size, and the
\* order leaves the queue (an SL/TP order left it with its trade).
ParentFill(b, o, price, k) ==
    IF HasTrade(b, o.parent)
    THEN LET t == TradeById(b, o.parent)
             size == Sgn(o.size) * Min(Abs(t.size), Abs(o.size))
             by == IF o.id = t.slId THEN "sl" ELSE IF o.id = t.tpId THEN "tp" ELSE "close"
             b1 == ReduceTrade(b, t.id, price, size, k, by)
         IN [b1 EXCEPT !.orders = RemoveIds(@, {o.id})]
    ELSE [b EXCEPT !.orders = RemoveIds(@, {o.id})]

RECURSIVE FifoClose(_, _, _, _, _)
\* Without hedging an order first closes or reduces, oldest first, the open
\* trades facing the other way; .need is what is left of it to open.
FifoClose(b, ts, need, price, k) ==
    IF ts = <<>> \/ need = 0 THEN [b |-> b, need |-> need]
    ELSE LET t == Head(ts)
         IN IF (t.size > 0) = (need > 0) THEN FifoClose(b, Tail(ts), need, price, k)
            ELSE IF Abs(need) >= Abs(t.size)
                 THEN FifoClose(CloseTrade(b, t.id, price, k, "fifo"), Tail(ts),
                                need + t.size, price, k)
                 ELSE [b |-> ReduceTrade(b, t.id, price, need, k, "fifo"), need |-> 0]

\* A stand-alone (entry) order filled at `price`.  A fractional size buys
\* what the available margin pays for at price plus commission; the sizes
\* the strategies pass (1 - epsilon, 0.9999999) are below 1 by less than a
\* money unit of any margin the model reaches, so the units bought are the
\* most whose cost stays strictly below the margin.
StandaloneFill(b, o, price, bar, k, market) ==
    LET app == price * (CD + commission)
        ma == MarginAvailable(b, bar.c)
        size == IF o.frac
                THEN Sgn(o.size) * (IF ma > 0 THEN FloorDiv(ma - 1, app) ELSE 0)
                ELSE o.size
        drop == [b EXCEPT !.orders = RemoveIds(@, {o.id})]
        Fill(b1, need) ==
            IF Abs(need) * app > MarginAvailable(b1, bar.c)
            THEN [b |-> [b1 EXCEPT !.orders = RemoveIds(@, {o.id})], re |-> FALSE]
            ELSE [b |-> [(IF need # 0 THEN OpenTrade(b1, price, need, o.sl, o.tp, k)
                          ELSE b1)
                         EXCEPT !.orders = RemoveIds(@, {o.id})],
                  re |-> need # 0 /\ (o.sl # 0 \/ o.tp # 0) /\ market]
        AfterFifo(f) == Fill(f.b, f.need)
    IN IF size = 0 THEN [b |-> drop, re |-> FALSE]
       ELSE AfterFifo(FifoClose(b, b.trades, size, price, k))

\* One iteration of the loop of _Broker._process_orders, for order o on a
\* bar: the stop test, the limit test, the fill price, the fill.
ProcOne(b, o, bar, k) ==
    LET isLong == o.size > 0
        stopHit == IF isLong THEN bar.h >= o.stop ELSE bar.l <= o.stop
        stop_price == o.stop
        b1 == [b EXCEPT !.orders = [j \in 1..Len(@) |->
                                     IF @[j].id = o.id THEN [@[j] EXCEPT !.stop = 0]
                                     ELSE @[j]]]
        limitHit == IF isLong THEN bar.l <= o.limit ELSE bar.h >= o.limit
        beforeStop == /\ limitHit
                      /\ stop_price # 0
                      /\ IF isLong THEN o.limit <= stop_price ELSE o.limit >= stop_price
        ref == IF stop_price # 0 THEN stop_price ELSE bar.o
        price == IF o.limit # 0
                 THEN (IF isLong THEN Min(ref, o.limit) ELSE Max(ref, o.limit))
                 ELSE IF stop_price # 0
                      THEN (IF isLong THEN Max(bar.o, stop_price) ELSE Min(bar.o, stop_price))
                      ELSE bar.o
    IN IF o.stop # 0 /\ ~stopHit THEN [b |-> b, re |-> FALSE]
       ELSE IF o.limit # 0 /\ (~limitHit \/ beforeStop) THEN [b |-> b1, re |-> FALSE]
       ELSE IF o.parent # 0 THEN [b |-> ParentFill(b1, o, price, k), re |-> FALSE]
       ELSE StandaloneFill(b1, o, price, bar, k, o.limit = 0 /\ stop_price = 0)

RECURSIVE ProcLoop(_, _, _, _, _)
\* for order in list(self.orders): an order that left the queue meanwhile
\* is skipped.
ProcLoop(b, snap, re, bar, k) ==
    IF snap = <<>> THEN [b |-> b, re |-> re]
    ELSE IF ~HasOrder(b, Head(snap).id) THEN ProcLoop(b, Tail(snap), re, bar, k)
    ELSE LET Rest(r) == ProcLoop(r.b, Tail(snap), re \/ r.re, bar, k)
         IN Rest(ProcOne(b, OrderById(b, Head(snap).id), bar, k))

\* As a bug would have it: one pass only, the SL/TP of a trade opened on the
\* bar are not looked at on that bar.
ProcessOrdersOnce(b, bar, k) == ProcLoop(b, b.orders, FALSE, bar, k).b

RECURSIVE ProcessOrders(_, _, _)
\* _Broker._process_orders: a second pass when a market order opened a
\* trade carrying SL/TP, so that they can be hit on the entry bar.
ProcessOrders(b, bar, k) ==
    LET Again(r) == IF r.re THEN ProcessOrders(r.b, bar, k) ELSE r.b
    IN Again(ProcLoop(b, b.orders, FALSE, bar, k))

RECURSIVE CloseEveryOther(_, _, _, _)
\* for trade in self.trades: self._close_trade(...): the list shrinks under
\* the iteration, which therefore visits every other trade.
CloseEveryOther(b, j, price, k) ==
    IF j > Len(b.trades) THEN b
    ELSE CloseEveryOther(CloseTrade(b, b.trades[j].id, price, k, "oom"), j + 1, price, k)

\* _Broker.next on bar k: the orders, then the equity of the bar; equity at
\* or below zero ends the simulation (_OutOfMoneyError).
BrokerNext(b, bar, k) ==
    LET Record(b1, eq) ==
            IF eq <= 0
            THEN [b |-> [CloseEveryOther(b1, 1, bar.c, k) EXCEPT !.cash = 0],
                  eq |-> 0, oom |-> TRUE]
            ELSE [b |-> b1, eq |-> eq, oom |-> FALSE]
        After(b1) == Record(b1, Equity(b1, bar.c))
    IN After(ProcessOrders(b, bar, k))

\* ------------------------------------------------- the Strategy interface
\* Strategy.buy / Strategy.sell -> _Broker.new_order.  `units` is signed;
\* frac says that the size is a fraction of the equity.  The price is the
\* last close.  A size of 0 fails the assertion of new_order; SL and TP on
\* the wrong side of the price raise ValueError.
PlaceOrder(b, last, units, frac, sl, tp) ==
    IF b.err # "none" THEN b
    ELSE IF units = 0 THEN [b EXCEPT !.err = "AssertionError"]
    ELSE IF units > 0 /\ ~((sl = 0 \/ sl < last) /\ (tp = 0 \/ last < tp))
         THEN [b EXCEPT !.err = "ValueError:order"]
    ELSE IF units < 0 /\ ~((tp = 0 \/ tp < last) /\ (sl = 0 \/ last < sl))
         THEN [b EXCEPT !.err = "ValueError:order"]
    ELSE [b EXCEPT !.nid = @ + 1,
                   !.orders = Append(@, NewOrder(b.nid, units, frac, 0, 0, sl, tp, 0))]

RECURSIVE CloseAll(_, _)
\* Position.close(): a closing order for every open trade, each put at the
\* front of the queue.
CloseAll(b, ts) ==
    IF ts = <<>> THEN b
    ELSE CloseAll([b EXCEPT !.nid = @ + 1,
                            !.orders = Insert0(@, NewOrder(b.nid, -Head(ts).size, FALSE,
                                                           0, 0, 0, 0, Head(ts).id))],
                  Tail(ts))
\* As a bug would have it: no closing order is queued.
PositionCloseNoop(b) == b
\* Position.close() as the strategies and the wrapper call it.
PositionClose(b) == IF b.err # "none" THEN b ELSE CloseAll(b, b.trades)

\* -------------------------------------------------------------- indicators
\* An indicator value is NaN or a rational <<n, d>> with d > 0.
\* Every comparison with NaN is false, as in numpy.
RECURSIVE Gcd(_, _)
Gcd(a, b) == IF b = 0 THEN a ELSE Gcd(b, a % b)
\* The rational n/d, d > 0, in lowest terms.
Q(n, d) == <<n \div Gcd(Abs(n), d), d \div Gcd(Abs(n), d)>>
IsNaN(a) == a[2] = 0
QLt(a, b) == ~IsNaN(a) /\ ~IsNaN(b) /\ a[1] * b[2] < b[1] * a[2]
QLe(a, b) == ~IsNaN(a) /\ ~IsNaN(b) /\ a[1] * b[2] <= b[1] * a[2]
QEq(a, b) == ~IsNaN(a) /\ ~IsNaN(b) /\ a[1] * b[2] = b[1] * a[2]
QAdd(a, b) == IF IsNaN(a) \/ IsNaN(b) THEN NaN ELSE Q(a[1] * b[2] + b[1] * a[2], a[2] * b[2])
QSub(a, b) == IF IsNaN(a) \/ IsNaN(b) THEN NaN ELSE Q(a[1] * b[2] - b[1] * a[2], a[2] * b[2])
QMul(a, m, dm) == IF IsNaN(a) THEN NaN ELSE Q(a[1] * m, a[2] * dm)
QMax(a, b) == IF QLt(a, b) THEN b ELSE a
QMin(a, b) == IF QLt(b, a) THEN b ELSE a

Closes(d) == [k \in 1..Len(d) |-> d[k].c]
Highs(d) == [k \in 1..Len(d) |-> d[k].h]
Lows(d) == [k \in 1..Len(d) |-> d[k].l]

RECURSIVE Pow(_, _)
Pow(x, n) == IF n = 0 THEN 1 ELSE x * Pow(x, n - 1)

RECURSIVE RollSum(_, _, _)
RollSum(xs, k, n) == IF n = 0 THEN 0 ELSE xs[k] + RollSum(xs, k - 1, n - 1)
RECURSIVE RollMax(_, _, _)
RollMax(xs, k, n) == IF n = 1 THEN xs[k] ELSE Max(xs[k], RollMax(xs, k - 1, n - 1))
RECURSIVE RollMin(_, _, _)
RollMin(xs, k, n) == IF n = 1 THEN xs[k] ELSE Min(xs[k], RollMin(xs, k - 1, n - 1))

\* backtesting.lib.crossover(series1, series2) on the arrays as cut at bar
\* k: series1[-2] < series2[-2] and series1[-1] > series2[-1]; False when
\* there is no bar before k.
Crossover(A(_), B(_), k) == k >= 2 /\ QLt(A(k - 1), B(k - 1)) /\ QLt(B(k), A(k))

RECURSIVE FirstValidFrom(_, _, _)
FirstValidFrom(A(_), k, n) ==
    IF k > n THEN 0 ELSE IF ~IsNaN(A(k)) THEN k - 1 ELSE FirstValidFrom(A, k + 1, n)
\* np.isnan(indicator).argmin(): the Python index of the first value that
\* is not NaN, and 0 when every value is NaN.
FirstValid(A(_), n) == FirstValidFrom(A, 1, n)

\* finta TA.SMA: rolling(window=n).mean() of the close.
SMA(d, n, k) == IF k < n THEN NaN ELSE Q(RollSum(Closes(d), k, n), n)

RECURSIVE EwmSum(_, _, _, _)
\* Sum over j = 2..k of x(j) * (p-1)^(k-j) * p^(j-2): the numerator of
\* ewm(alpha=1/p, adjust=True).mean() at bar k, the weights scaled by
\* p^(k-2); the first difference, NaN, carries no weight.
EwmSum(X(_), p, k, j) ==
    IF j > k THEN 0
    ELSE X(j) * Pow(p - 1, k - j) * Pow(p, j - 2) + EwmSum(X, p, k, j + 1)

\* finta TA.RSI on the close: 100 - 100 / (1 + gain/loss), which is
\* 100 * gain / (gain + loss), and NaN when both are 0 or at the first bar.
RSI(d, p, k) ==
    LET Up(j) == Max(d[j].c - d[j - 1].c, 0)
        Dn(j) == Max(d[j - 1].c - d[j].c, 0)
        g == EwmSum(Up, p, k, 2)
        l == EwmSum(Dn, p, k, 2)
    IN IF k < 2 \/ g + l = 0 THEN NaN ELSE Q(100 * g, g + l)

\* weekly_strategy.rolling_min / rolling_max: rolling(n, min_periods=1).
RollingMin(d, n, k) == Q(RollMin(Closes(d), k, Min(n, k)), 1)
RollingMax(d, n, k) == Q(RollMax(Closes(d), k, Min(n, k)), 1)
\* PriceLevelStrategy.init: min_price + price_range * (q/4).
Level(d, n, q, k) ==
    QAdd(RollingMin(d, n, k), QMul(QSub(RollingMax(d, n, k), RollingMin(d, n, k)), q, 4))

\* -------------------------------------------------------------- strategies
\* Each next(self) is an operator from the series d as cut at bar k, the
\* broker b and the instance attributes sti to the broker and attributes
\* it leaves.  An exception is b.err; the statements after it do not run.

Raised(b) == b.err # "none"

\* BuyAndHold.init / BuyAndHold.next.
BuyAndHoldNext(p, d, k, b, sti) ==
    IF sti.bought = "False"
    THEN LET b1 == PlaceOrder(b, d[k].c, 1, TRUE, 0, 0)
         IN [b |-> b1, st |-> IF Raised(b1) THEN sti ELSE [sti EXCEPT !.bought = "True"]]
    ELSE [b |-> b, st |-> sti]

\* As a bug would have it: an entry whenever the short average is above the
\* long one, crossing or not.
SmaCrossNextAbove(p, d, k, b, sti) ==
    IF QLt(SMA(d, p.n2, k), SMA(d, p.n1, k))
    THEN [b |-> PlaceOrder(b, d[k].c, 1, TRUE, 0, 0), st |-> sti]
    ELSE [b |-> b, st |-> sti]

\* As a bug would have it: averages that touch count as crossing.
SmaCrossNextTouching(p, d, k, b, sti) ==
    LET sma1(j) == SMA(d, p.n1, j)
        sma2(j) == SMA(d, p.n2, j)
    IN IF k >= 2 /\ QLe(sma1(k - 1), sma2(k - 1)) /\ QLe(sma2(k), sma1(k))
       THEN [b |-> PlaceOrder(b, d[k].c, 1, TRUE, 0, 0), st |-> sti]
       ELSE [b |-> b, st |-> sti]

\* SmaCross.next.
SmaCrossNext(p, d, k, b, sti) ==
    LET sma1(j) == SMA(d, p.n1, j)
        sma2(j) == SMA(d, p.n2, j)
    IN IF Crossover(sma1, sma2, k)
       THEN [b |-> PlaceOrder(b, d[k].c, 1, TRUE, 0, 0), st |-> sti]
       ELSE IF Crossover(sma2, sma1, k)
            THEN [b |-> PositionClose(b), st |-> sti]
            ELSE [b |-> b, st |-> sti]

\* RsiMomentum.next.
RsiMomentumNext(p, d, k, b, sti) ==
    LET rsi(j) == RSI(d, p.rsi_period, j)
        lower(j) == Q(p.lower_bound, 1)
        upper(j) == Q(p.upper_bound, 1)
    IN IF Crossover(lower, rsi, k)
       THEN [b |-> PlaceOrder(b, d[k].c, 1, TRUE, 0, 0), st |-> sti]
       ELSE IF Crossover(rsi, upper, k)
            THEN [b |-> PositionClose(b), st |-> sti]
            ELSE [b |-> b, st |-> sti]

\* PriceLevelStrategy.next.  buyed and selled exist on the instance only
\* once an entry has set them; reading one before is an AttributeError.
PriceLevelNext(p, d, k, b, sti) ==
    LET n == p.lookback_period
        close(j) == Q(d[j].c, 1)
        l0(j) == Level(d, n, 0, j)
        l25(j) == Level(d, n, 1, j)
        l75(j) == Level(d, n, 3, j)
        l100(j) == Level(d, n, 4, j)
        flag(v) == IF v = "unset" THEN [b EXCEPT !.err = "AttributeError"] ELSE b
    IN IF QEq(RollingMax(d, n, k), RollingMin(d, n, k)) THEN [b |-> b, st |-> sti]
       ELSE IF PositionSize(b) = 0
       THEN IF Crossover(l25, close, k) \/ Crossover(l0, close, k)
            THEN LET b1 == PlaceOrder(b, d[k].c, 1, TRUE, 0, 0)
                 IN [b |-> b1,
                     st |-> IF Raised(b1) THEN sti
                            ELSE [sti EXCEPT !.buyed = "True", !.selled = "False"]]
            ELSE IF Crossover(l75, close, k) \/ Crossover(l100, close, k)
            THEN LET b1 == PlaceOrder(b, d[k].c, -1, TRUE, 0, 0)
                 IN [b |-> b1,
                     st |-> IF Raised(b1) THEN sti
                            ELSE [sti EXCEPT !.buyed = "False", !.selled = "True"]]
            ELSE [b |-> b, st |-> sti]
       ELSE IF Crossover(close, l75, k) \/ Crossover(l100, close, k)
            THEN IF sti.buyed = "True" THEN [b |-> PositionClose(b), st |-> sti]
                 ELSE IF sti.buyed = "unset" THEN [b |-> flag(sti.buyed), st |-> sti]
                 ELSE IF Crossover(close, l25, k) \/ Crossover(l0, close, k)
                      THEN IF sti.selled = "True" THEN [b |-> PositionClose(b), st |-> sti]
                           ELSE [b |-> flag(sti.selled), st |-> sti]
                      ELSE [b |-> b, st |-> sti]
            ELSE IF Crossover(close, l25, k) \/ Crossover(l0, close, k)
                 THEN IF sti.selled = "True" THEN [b |-> PositionClose(b), st |-> sti]
                      ELSE [b |-> flag(sti.selled), st |-> sti]
                 ELSE [b |-> b, st |-> sti]

\* IchimokuStrategy._midpoint: (rolling max of the high + rolling min of
\* the low) / 2 over `period` bars, NaN before the window is full.
Midpoint(d, period, j) ==
    IF j < period THEN NaN
    ELSE Q(RollMax(Highs(d), j, period) + RollMin(Lows(d), j, period), 2)

\* IchimokuStrategy._chikou_span: close.shift(-lag_period), computed by
\* init() over the whole series: the value at bar j is the close of bar
\* j + lag_period, NaN for the last lag_period bars.
ChikouSpan(d, lag_period, j) ==
    IF j + lag_period <= Len(d) THEN Q(d[j + lag_period].c, 1) ELSE NaN

\* The true range of bar j: at the first bar high - low alone.
TrueRange(d, j) ==
    IF j = 1 THEN d[j].h - d[j].l
    ELSE Max(d[j].h - d[j].l, Max(Abs(d[j].h - d[j - 1].c), Abs(d[j].l - d[j - 1].c)))

RECURSIVE SumTr(_, _, _)
SumTr(d, j, n) == IF n = 0 THEN 0 ELSE TrueRange(d, j) + SumTr(d, j - 1, n - 1)

\* IchimokuStrategy._atr: tr.rolling(atr_period).mean().
IchimokuAtr(d, n, j) == IF j < n THEN NaN ELSE Q(SumTr(d, j, n), n)

\* A price level the indicators produce, in whole ticks.
Ticks(q) == q[1] \div q[2]

\* IchimokuStrategy.next.
IchimokuNext(p, d, k, b, sti) ==
    LET tenkan(j) == Midpoint(d, p.tenkan_period, j)
        kijun(j) == Midpoint(d, p.kijun_period, j)
        senkou_a(j) == QMul(QAdd(tenkan(j), kijun(j)), 1, 2)
        senkou_b(j) == Midpoint(d, p.senkou_b_period, j)
        chikou(j) == ChikouSpan(d, p.kijun_period, j)
        atr(j) == IchimokuAtr(d, p.atr_period, j)
        price == Q(d[k].c, 1)
        shift == p.kijun_period
        nothing == [b |-> b, st |-> sti]
        Trade(cloud_top, cloud_bottom) ==
            LET in_cloud == QLe(cloud_bottom, price) /\ QLe(price, cloud_top)
                long_risk == QSub(price, cloud_bottom)
                short_risk == QSub(cloud_top, price)
                long_tp == QAdd(price, QMul(long_risk, 3, 2))
                short_tp == QSub(price, QMul(short_risk, 3, 2))
            IN IF QLt(QMul(atr(k), p.atr_threshold[2], 1), QMul(price, p.atr_threshold[1], 1))
               THEN nothing
               ELSE IF /\ PositionSize(b) = 0
                       /\ QLt(cloud_top, price)
                       /\ Crossover(tenkan, kijun, k)
                       /\ QLt(price, chikou(k))
               THEN IF /\ QLt(Q(0, 1), cloud_bottom)
                       /\ QLt(price, long_tp)
                       /\ QLt(Q(0, 1), long_risk)
                    THEN [b |-> PlaceOrder(b, d[k].c, 1, TRUE, Ticks(cloud_bottom),
                                           Ticks(long_tp)),
                          st |-> sti]
                    ELSE nothing
               ELSE IF /\ PositionSize(b) = 0
                       /\ QLt(price, cloud_bottom)
                       /\ Crossover(kijun, tenkan, k)
                       /\ QLt(chikou(k), price)
               THEN IF /\ QLt(price, cloud_top)
                       /\ QLt(Q(0, 1), short_tp)
                       /\ QLt(Q(0, 1), short_risk)
                    THEN [b |-> PlaceOrder(b, d[k].c, -1, TRUE, Ticks(cloud_top),
                                           Ticks(short_tp)),
                          st |-> sti]
                    ELSE nothing
               ELSE IF PositionSize(b) > 0 /\ (in_cloud \/ Crossover(kijun, tenkan, k))
               THEN [b |-> PositionClose(b), st |-> sti]
               ELSE IF PositionSize(b) < 0 /\ (in_cloud \/ Crossover(tenkan, kijun, k))
               THEN [b |-> PositionClose(b), st |-> sti]
               ELSE nothing
    IN IF \/ IsNaN(tenkan(k)) \/ IsNaN(kijun(k)) \/ IsNaN(senkou_a(k))
          \/ IsNaN(senkou_b(k)) \/ IsNaN(chikou(k)) \/ IsNaN(atr(k))
       THEN nothing
       ELSE IF k <= shift THEN nothing
       ELSE IF IsNaN(senkou_a(k - shift)) \/ IsNaN(senkou_b(k - shift)) THEN nothing
       ELSE Trade(QMax(senkou_a(k - shift), senkou_b(k - shift)),
                  QMin(senkou_a(k - shift), senkou_b(k - shift)))

RECURSIVE AtrFunc(_, _, _)
\* fvg_strategy.atr_func: NaN before bar n, at bar n the mean of the true
\* ranges of bars 2..n (of nothing, NaN, when n = 1), then Wilder's
\* smoothing (atr[i-1] * (n-1) + tr[i]) / n.
AtrFunc(d, n, j) ==
    IF Len(d) < n \/ j < n THEN NaN
    ELSE IF j = n THEN (IF n = 1 THEN NaN ELSE Q(SumTr(d, j, n - 1), n - 1))
    ELSE QMul(QAdd(QMul(AtrFunc(d, n, j - 1), n - 1, 1), Q(TrueRange(d, j), 1)), 1, n)

\* Python's round(x, 0) of a rational x >= 0: to the nearest whole number,
\* a half to the even one.
RoundHalfEven(q) ==
    LET f == q[1] \div q[2]
        r == q[1] - f * q[2]
    IN IF 2 * r < q[2] THEN f
       ELSE IF 2 * r > q[2] THEN f + 1
       ELSE IF f % 2 = 0 THEN f ELSE f + 1

\* The smallest positive price, standing for the 1e-6 that FVGStrategy
\* clamps SL and TP to: below every price of a bar.
TinyPrice == 1

\* As a bug would have it: the clean-up keeps the gaps whatever their age.
FvgKeepForever(p, d, k, fvgs) ==
    SelectSeq(fvgs, LAMBDA f :
        /\ ~f.used
        /\ ~(f.type = "bullish" /\ d[k].l < f.bottom)
        /\ ~(f.type = "bearish" /\ d[k].h > f.top))

\* Section 1 of FVGStrategy.next: the gaps kept at bar k (index k - 1).
FvgKeep(p, d, k, fvgs) ==
    SelectSeq(fvgs, LAMBDA f :
        /\ ~f.used
        /\ ~(k - 1 > f.created_at + p.fvg_expiry)
        /\ ~(f.type = "bullish" /\ d[k].l < f.bottom)
        /\ ~(f.type = "bearish" /\ d[k].h > f.top))

\* Section 2: a gap between the bar two back and the current one joins the
\* list, unless the last gap listed is of the same kind with the same edge.
FvgDetect(d, k, fvgs) ==
    LET last(fs) == fs[Len(fs)]
        Bearish(fs) ==
            IF /\ d[k - 2].l > d[k].h
               /\ ~(fs # <<>> /\ last(fs).type = "bearish" /\ last(fs).top = d[k - 2].l)
            THEN Append(fs, [type |-> "bearish", top |-> d[k - 2].l, bottom |-> d[k].h,
                             created_at |-> k - 1, used |-> FALSE])
            ELSE fs
    IN Bearish(IF /\ d[k - 2].h < d[k].l
                  /\ ~(fvgs # <<>> /\ last(fvgs).type = "bullish"
                       /\ last(fvgs).bottom = d[k - 2].h)
               THEN Append(fvgs, [type |-> "bullish", top |-> d[k].l, bottom |-> d[k - 2].h,
                                  created_at |-> k - 1, used |-> FALSE])
               ELSE fvgs)

\* The size FVGStrategy computes for an entry at the close of bar k, before
\* it is rounded: risk_percentage of the equity over the stop distance, in
\* units, or as a fraction of the equity when that is less than one unit.
FvgPositionSize(p, d, k, b) ==
    LET atr == AtrFunc(d, p.atr_period, k)
        entry == d[k].c
        atr_sl == QMul(atr, p.sl_atr_multiplier, 1)
        sl_distance == IF QLe(atr_sl, Q(0, 1)) THEN Q(entry, 1000) ELSE atr_sl
        E == Equity(b, entry)
        units == Q(E * p.risk_percentage[1] * sl_distance[2],
                   CD * p.risk_percentage[2] * sl_distance[1])
    IN IF QLe(sl_distance, Q(0, 1)) THEN Q(0, 1)
       ELSE IF QLe(units, Q(0, 1)) THEN Q(0, 1)
       ELSE IF QLt(units, Q(1, 1))
            THEN (IF E > 0 THEN Q(units[1] * entry * CD, units[2] * E) ELSE Q(0, 1))
       ELSE units

\* Section 3: the pullback into gap f that opens a trade at bar k.
FvgEntry(d, k, f) ==
    /\ ~f.used
    /\ k > 3
    /\ IF f.type = "bullish" THEN d[k - 1].l > f.top /\ d[k].l <= f.top
       ELSE d[k - 1].h < f.bottom /\ d[k].h >= f.bottom

\* FVGStrategy.next.
FVGNext(p, d, k, b, sti) ==
    LET atr == AtrFunc(d, p.atr_period, k)
        entry == d[k].c
        atr_sl == QMul(atr, p.sl_atr_multiplier, 1)
        sl_distance == IF QLe(atr_sl, Q(0, 1)) THEN Q(entry, 1000) ELSE atr_sl
        tp_distance == QMul(atr, p.tp_atr_multiplier, 1)
        Clamp(x) == Max(TinyPrice, x)
        Execute(fvgs) ==
            LET hits == {j \in 1..Len(fvgs) : FvgEntry(d, k, fvgs[j])}
                j == CHOOSE x \in hits : \A y \in hits : x <= y
                size == RoundHalfEven(FvgPositionSize(p, d, k, b))
                Placed(b1) ==
                    [b |-> b1,
                     st |-> [sti EXCEPT !.active_fvgs =
                                IF Raised(b1) THEN fvgs
                                ELSE [fvgs EXCEPT ![j].used = TRUE]]]
            IN IF hits = {} \/ ~QLt(Q(0, 1), FvgPositionSize(p, d, k, b))
               THEN [b |-> b, st |-> [sti EXCEPT !.active_fvgs = fvgs]]
               ELSE IF fvgs[j].type = "bullish"
               THEN Placed(PlaceOrder(b, entry, size, FALSE,
                                      Clamp(Ticks(QSub(Q(entry, 1), sl_distance))),
                                      Clamp(Ticks(QAdd(Q(entry, 1), tp_distance)))))
               ELSE Placed(PlaceOrder(b, entry, -size, FALSE,
                                      Clamp(Ticks(QAdd(Q(entry, 1), sl_distance))),
                                      Clamp(Ticks(QSub(Q(entry, 1), tp_distance)))))
        Detected(fvgs) ==
            IF PositionSize(b) # 0 THEN [b |-> b, st |-> [sti EXCEPT !.active_fvgs = fvgs]]
            ELSE Execute(fvgs)
        Kept(fvgs) ==
            IF k < 3 THEN [b |-> b, st |-> [sti EXCEPT !.active_fvgs = fvgs]]
            ELSE Detected(FvgDetect(d, k, fvgs))
    IN IF k < p.atr_period \/ IsNaN(atr) THEN [b |-> b, st |-> sti]
       ELSE Kept(FvgKeep(p, d, k, sti.active_fvgs))

\* ------------------------------------------------------------ run_backtest
Strategies == {"BuyAndHold", "SmaCross", "RsiMomentum", "PriceLevelStrategy",
               "IchimokuStrategy", "FVGStrategy"}

StrategyNext(s, p, d, k, b, sti) ==
    CASE s = "BuyAndHold" -> BuyAndHoldNext(p, d, k, b, sti)
      [] s = "SmaCross" -> SmaCrossNext(p, d, k, b, sti)
      [] s = "RsiMomentum" -> RsiMomentumNext(p, d, k, b, sti)
      [] s = "PriceLevelStrategy" -> PriceLevelNext(p, d, k, b, sti)
      [] s = "IchimokuStrategy" -> IchimokuNext(p, d, k, b, sti)
      [] s = "FVGStrategy" -> FVGNext(p, d, k, b, sti)

\* len(self.data): the length the data is cut to at bar k.
DataLen(d, k) == k
\* len(self.data.df): _Data.df is the frame cut to the same length.
DfLen(d, k) == Len(IF k < Len(d) THEN SubSeq(d, 1, k) ELSE d)

\* StrategyWrapper.next: the strategy's next, then the closing branch.
WrapperNext(s, p, d, k, b, sti) ==
    LET Closing(r) ==
            IF ~Raised(r.b) /\ DataLen(d, k) = DfLen(d, k) /\ s # "BuyAndHold"
            THEN [r EXCEPT !.b = PositionClose(r.b)]
            ELSE r
    IN Closing(StrategyNext(s, p, d, k, b, sti))

\* As a bug would have it: the instance of the run before is used again.
NewInstanceShared(s) ==
    IF runNo = 1
    THEN [bought |-> IF s = "BuyAndHold" THEN "False" ELSE "unset",
          buyed |-> "unset", selled |-> "unset", active_fvgs |-> <<>>]
    ELSE st

\* Strategy.__init__ and init(): the attributes of a new instance.
NewInstance(s) ==
    [bought |-> IF s = "BuyAndHold" THEN "False" ELSE "unset",
     buyed |-> "unset", selled |-> "unset", active_fvgs |-> <<>>]

\* init() raising: PriceLevelStrategy refuses a lookback of 0 or less.
InitError(s, p) ==
    IF s = "PriceLevelStrategy" /\ p.lookback_period <= 0 THEN "ValueError:lookback"
    ELSE "none"

\* _indicator_warmup_nbars: the largest first valid index of the indicators
\* the instance declares.
Warmup(s, p, d) ==
    CASE s = "BuyAndHold" -> 0
      [] s = "SmaCross" ->
            LET sma1(j) == SMA(d, p.n1, j)
                sma2(j) == SMA(d, p.n2, j)
            IN Max(FirstValid(sma1, Len(d)), FirstValid(sma2, Len(d)))
      [] s = "RsiMomentum" ->
            LET rsi(j) == RSI(d, p.rsi_period, j) IN FirstValid(rsi, Len(d))
      [] s = "PriceLevelStrategy" -> 0
      [] s = "IchimokuStrategy" ->
            LET tenkan(j) == Midpoint(d, p.tenkan_period, j)
                kijun(j) == Midpoint(d, p.kijun_period, j)
                senkou_a(j) == QMul(QAdd(tenkan(j), kijun(j)), 1, 2)
                senkou_b(j) == Midpoint(d, p.senkou_b_period, j)
                chikou(j) == ChikouSpan(d, p.kijun_period, j)
                atr(j) == IchimokuAtr(d, p.atr_period, j)
            IN Max(Max(FirstValid(tenkan, Len(d)), FirstValid(kijun, Len(d))),
                   Max(Max(FirstValid(senkou_a, Len(d)), FirstValid(senkou_b, Len(d))),
                       Max(FirstValid(chikou, Len(d)), FirstValid(atr, Len(d)))))
      [] s = "FVGStrategy" ->
            LET atr(j) == AtrFunc(d, p.atr_period, j) IN FirstValid(atr, Len(d))

NewBroker(c) == [orders |-> <<>>, trades |-> <<>>, closed |-> <<>>, cash |-> c,
                 nid |-> 1, err |-> "none"]

\* Backtest(data, StrategyWrapper, cash, commission) and the head of
\* Backtest.run: a new broker, a new strategy instance, init(), the warm-up.
StartRun ==
    /\ pc = "call"
    /\ broker' = NewBroker(cash)
    /\ st' = NewInstance(strategy)
    /\ equity' = [k \in 1..N |-> NoEquity]
    /\ i' = 0
    /\ IF InitError(strategy, params) # "none"
       THEN /\ error' = InitError(strategy, params)
            /\ pc' = "except"
            /\ start' = 0
       ELSE /\ error' = "none"
            /\ pc' = "loop"
            /\ start' = 2 + Warmup(strategy, params, data)
    /\ UNCHANGED <<wrapped, batch, store, optimizers, calls, opt, strategy, params, data, cash, commission, libFails, stats,
                   runNo, firstOutcome>>

\* As a bug would have it: every other bar is left out.
NextBarSkipping == IF i = 0 THEN start ELSE i + 2
\* The bar the loop takes next: for i in range(start, len(self._data)).
NextBar == IF i = 0 THEN start ELSE i + 1

\* The bar loop, first half: the data is cut to the bar, broker.next().
BrokerStep ==
    /\ pc = "loop"
    /\ NextBar <= N
    /\ \E r \in {BrokerNext(broker, data[NextBar], NextBar)} :
          /\ broker' = r.b
          /\ equity' = [k \in 1..N |->
                          IF k = NextBar THEN r.eq
                          ELSE IF k > NextBar /\ r.oom THEN 0
                          ELSE equity[k]]
          /\ pc' = IF r.oom THEN "stats" ELSE "next"
    /\ i' = NextBar
    /\ UNCHANGED <<wrapped, batch, store, optimizers, calls, opt, strategy, params, data, cash, commission, libFails, start, st,
                   stats, error, runNo, firstOutcome>>

\* The bar loop, second half: strategy.next(), of the wrapper when the run
\* is run_backtest's.  An exception
\* leaves Backtest.run; run_backtest has a handler for ValueError only.
StrategyStep ==
    /\ pc = "next"
    /\ \E r \in {IF wrapped THEN WrapperNext(strategy, params, data, i, broker, st)
                  ELSE StrategyNext(strategy, params, data, i, broker, st)} :
          /\ broker' = [r.b EXCEPT !.err = "none"]
          /\ st' = r.st
          /\ error' = r.b.err
          /\ pc' = IF Raised(r.b)
                   THEN (IF r.b.err \in {"ValueError:order"} THEN "except" ELSE "raised")
                   ELSE "loop"
    /\ UNCHANGED <<wrapped, batch, store, optimizers, calls, opt, strategy, params, data, cash, commission, libFails, i, start,
                   equity, stats, runNo, firstOutcome>>

\* The loop is over (for ... else): with finalize_trades at its default
\* nothing is done to the trades still open or to the orders still queued.
LoopEnd ==
    /\ pc = "loop"
    /\ NextBar > N
    /\ pc' = "stats"
    /\ UNCHANGED <<wrapped, batch, store, optimizers, calls, opt, strategy, params, data, cash, commission, libFails, i, start,
                   broker, equity, st, stats, error, runNo, firstOutcome>>

RECURSIVE BFill(_, _, _)
\* pd.Series(broker._equity).bfill().fillna(broker._cash) at slot k.
BFill(eq, k, c) ==
    IF k > Len(eq) THEN c ELSE IF eq[k] # NoEquity THEN eq[k] ELSE BFill(eq, k + 1, c)

\* As a bug would have it: the points numbered from 0, not indexed by the
\* data's index.
EquityCurveRangeIndex(d, eq, c) == [k \in 1..Len(d) |-> [t |-> k - 1, e |-> BFill(eq, k, c)]]

\* The _equity_curve of the stats: one row per row of the data, indexed by
\* the data's index.
EquityCurve(d, eq, c) == [k \in 1..Len(d) |-> [t |-> d[k].t, e |-> BFill(eq, k, c)]]

Flat(curve) == \A k \in 1..Len(curve) : curve[k].e = curve[1].e

\* backtesting's compute_stats, the entries the repository reads.  A flat
\* curve has volatility 0: Sharpe and Sortino are NaN; otherwise they are
\* numbers this model does not compute ("num").
LibraryStats(d, eq, b) ==
    LET curve == EquityCurve(d, eq, b.cash)
        first == curve[1].e
        last == curve[Len(curve)].e
    IN [kind |-> "library",
        Start |-> d[1].t,
        End |-> d[Len(d)].t,
        EquityFinal |-> last,
        Return |-> Q((last - first) * 100, first),
        ReturnAnn |-> IF Flat(curve) THEN "0" ELSE "num",
        Sharpe |-> IF Flat(curve) THEN "NaN" ELSE "num",
        Sortino |-> IF Flat(curve) THEN "NaN" ELSE "num",
        NTrades |-> Len(b.closed),
        curve |-> curve,
        trades |-> [j \in 1..Len(b.closed) |->
                      [Size |-> b.closed[j].size,
                       EntryBar |-> b.closed[j].ebar, ExitBar |-> b.closed[j].xbar,
                       EntryPrice |-> b.closed[j].entry, ExitPrice |-> b.closed[j].exit,
                       PnL |-> ClosedPl(b.closed[j])]]]

\* The tail of Backtest.run: the statistics (the Sharpe ratio and the like
\* as the strings "0", "NaN" and "num").  The handler of run_backtest
\* expects the library to raise "Cannot calculate a linear regression ..."
\* when no trade was executed; whether it does is the environment's, the
\* same in every run of one process.
\* The run of a candidate of a search is scored by the search instead
\* (PairCandidate).
ComputeStats ==
    /\ pc = "stats"
    /\ batch.pc # "search"
    /\ \E f \in (IF libFails = "unknown" THEN {"yes", "no"} ELSE {libFails}) :
         /\ libFails' = (IF Len(broker.closed) = 0 THEN f ELSE libFails)
         /\ IF Len(broker.closed) = 0 /\ f = "yes"
            THEN /\ error' = "ValueError:regression"
                 /\ pc' = "except"
                 /\ stats' = None
            ELSE /\ error' = "none"
                 /\ pc' = "report"
                 /\ stats' = LibraryStats(data, equity, broker)
    /\ UNCHANGED <<wrapped, batch, store, optimizers, calls, opt, strategy, params, data, cash, commission, i, start, broker,
                   equity, st, runNo, firstOutcome>>

\* strategy(**params) in the fallback statistics: Strategy.__init__ takes
\* broker, data and params positionally, so the call raises TypeError.
NewStrategyFromKeywords(s, p) == "TypeError"

\* The statistics run_backtest builds itself, runner.py lines 41 to 73.
FallbackStats(s, p, d, c) ==
    IF NewStrategyFromKeywords(s, p) = "TypeError"
    THEN [err |-> "TypeError", stats |-> None]
    ELSE [err |-> "none",
          stats |-> [kind |-> "neutral",
                     Start |-> d[1].t,
                     End |-> d[Len(d)].t,
                     EquityFinal |-> c,
                     Return |-> Q(0, 1),
                     ReturnAnn |-> "0",
                     Sharpe |-> "0",
                     Sortino |-> "0",
                     NTrades |-> 0,
                     curve |-> [k \in 1..Len(d) |-> [t |-> d[k].t, e |-> c]],
                     trades |-> <<>>]]

\* As a bug would have it: the handler does not look at the message and
\* takes every ValueError for the one of a run without trades.
HandleValueErrorAny ==
    /\ pc = "except"
    /\ LET r == FallbackStats(strategy, params, data, cash)
       IN IF r.err # "none"
          THEN /\ error' = r.err
               /\ pc' = "raised"
               /\ stats' = None
          ELSE /\ error' = "none"
               /\ pc' = "report"
               /\ stats' = r.stats
    /\ UNCHANGED <<wrapped, batch, store, optimizers, calls, opt, strategy, params, data, cash, commission, libFails, i, start,
                   broker, equity, st, runNo, firstOutcome>>

\* except ValueError as e: the regression message builds the fallback
\* statistics, every other ValueError is raised again.
HandleValueError ==
    /\ pc = "except"
    /\ IF error = "ValueError:regression"
       THEN LET r == FallbackStats(strategy, params, data, cash)
            IN IF r.err # "none"
               THEN /\ error' = r.err
                    /\ pc' = "raised"
                    /\ stats' = None
               ELSE /\ error' = "none"
                    /\ pc' = "report"
                    /\ stats' = r.stats
       ELSE /\ pc' = "raised"
            /\ UNCHANGED <<error, stats>>
    /\ UNCHANGED <<wrapped, batch, store, optimizers, calls, opt, strategy, params, data, cash, commission, libFails, i, start,
                   broker, equity, st, runNo, firstOutcome>>

\* quantstats on the equity column: the returns are its relative changes,
\* the first one 0.
Returns(curve) ==
    [k \in 1..Len(curve) |->
        IF k = 1 \/ curve[k - 1].e = 0 THEN Q(0, 1)
        ELSE Q(curve[k].e - curve[k - 1].e, curve[k - 1].e)]

\* scipy's linregress, which quantstats calls for the R^2 against the
\* benchmark, refuses x values that are all identical.
RegressionFails(xs) == \A k \in 1..Len(xs) : QEq(xs[k], xs[1])

\* generate_report: the quantstats report (with the Buy & Hold benchmark
\* unless the strategy is BuyAndHold), then the plot; outside the try.
GenerateReport ==
    /\ pc = "report"
    /\ IF strategy # "BuyAndHold" /\ RegressionFails(Returns(stats.curve))
       THEN /\ error' = "ValueError:regression"
            /\ pc' = "raised"
       ELSE /\ error' = "none"
            /\ pc' = "done"
    /\ UNCHANGED <<wrapped, batch, store, optimizers, calls, opt, strategy, params, data, cash, commission, libFails, i, start,
                   broker, equity, st, stats, runNo, firstOutcome>>

Outcome == [pc |-> pc, error |-> error, stats |-> stats]

\* The caller executes run_backtest again with the same arguments.
SecondRun ==
    /\ pc \in {"done", "raised"}
    /\ runNo = 1
    /\ runNo' = 2
    /\ firstOutcome' = Outcome
    /\ pc' = "call"
    /\ stats' = None
    /\ error' = "none"
    /\ UNCHANGED <<wrapped, batch, store, optimizers, calls, opt, strategy, params, data, cash, commission, libFails, i, start,
                   broker, equity, st>>

\* --------------------------------------------------------------- optimizer
\* StrategyOptimizer.optimize: bt.optimize(maximize='Sharpe Ratio',
\* **param_grid, method='sambo', max_tries=1000, return_heatmap=True).  The
\* search is the library's: it evaluates points of the box the grid spans,
\* one run per new point, and returns the best point it evaluated together
\* with every point evaluated.  The Sharpe ratio of a point's run is a
\* whole number or NaN here.

\* Most evaluations of one search.
MaxTries == 3

\* The box of an integer parameter: every whole number from the smallest
\* to the largest value of its grid (bounds min, max + 1).
Dimension(values) ==
    (CHOOSE a \in values : \A v \in values : a <= v)
        ..(CHOOSE a \in values : \A v \in values : a >= v)

\* The points the search may evaluate.
Candidates(grid) == {[n1 |-> a, n2 |-> b] : a \in Dimension(grid.n1), b \in Dimension(grid.n2)}

\* objective_function: minus the Sharpe ratio, and 0 when that is NaN.
ObjectiveFunction(sharpe) == IF IsNaN(sharpe) THEN 0 ELSE 0 - sharpe[1]

\* memoized_run under lru_cache: a point evaluated before has the value
\* it had.
Memoized(xv, funv, x, f) == \A j \in 1..Len(xv) : xv[j] = x => funv[j] = f

\* The search evaluates one more point: memoized_run runs the point's
\* backtest, objective_function turns the Sharpe ratio into the value to
\* minimize.  A run without a trade has the Sharpe ratio NaN, unless the
\* library raises the regression ValueError on it: optimize has no handler,
\* the exception leaves it.  The run of a point gives in a second call of
\* optimize what it gave in the first.
OptEvaluate ==
    /\ opt.pc = "search"
    /\ Len(opt.xv) < MaxTries
    /\ \E x \in Candidates(opt.grid), sharpe \in {NaN, Q(0 - 1, 1), Q(0, 1), Q(1, 1)},
          f \in (IF libFails = "unknown" THEN {"yes", "no"} ELSE {libFails}) :
          /\ Memoized(opt.xv, opt.funv, x, ObjectiveFunction(sharpe))
          /\ runNo = 2 => Memoized(firstOutcome.xv, firstOutcome.funv, x,
                                   ObjectiveFunction(sharpe))
          /\ libFails' = (IF IsNaN(sharpe) THEN f ELSE libFails)
          /\ IF IsNaN(sharpe) /\ f = "yes"
             THEN /\ opt' = [opt EXCEPT !.pc = "raised"]
                  /\ error' = "ValueError:regression"
             ELSE /\ opt' = [opt EXCEPT !.xv = Append(@, x),
                                        !.funv = Append(@, ObjectiveFunction(sharpe))]
                  /\ error' = error
    /\ UNCHANGED <<wrapped, batch, store, optimizers, calls, strategy, params, data, cash, commission, pc, i, start,
                   broker, equity, st, stats, runNo, firstOutcome>>

\* res.x: a point evaluated whose objective value no other one is below.
SamboBest(xv, funv) ==
    {xv[j] : j \in {j \in 1..Len(xv) : \A k \in 1..Len(xv) : funv[j] <= funv[k]}}

RECURSIVE SortRows(_)
\* The rows of a heatmap in the order of its sorted index.
SortRows(rows) ==
    IF rows = {} THEN <<>>
    ELSE LET first == CHOOSE r \in rows : \A q \in rows :
                          \/ r.x.n1 < q.x.n1
                          \/ r.x.n1 = q.x.n1 /\ r.x.n2 <= q.x.n2
         IN <<first>> \o SortRows(rows \ {first})

\* pd.Series(dict(zip(map(tuple, res.xv), -res.funv))).sort_index(): one
\* entry per point evaluated, valued minus its objective value.
Heatmap(xv, funv) ==
    SortRows({[x |-> xv[j], value |-> 0 - funv[j]] : j \in 1..Len(xv)})

\* As a bug would have it: the rows of the best score are left out.
ProcessHeatmapTrimmed(heatmap_series, param_grid) ==
    LET rows == SelectSeq(heatmap_series,
                          LAMBDA r : \E j \in 1..Len(heatmap_series) :
                                         heatmap_series[j].value > r.value)
    IN [j \in 1..Len(rows) |-> [n1 |-> rows[j].x.n1, n2 |-> rows[j].x.n2,
                                Performance |-> rows[j].value]]

\* StrategyOptimizer._process_heatmap: an empty frame for an empty series,
\* otherwise one row per entry, the index levels as columns and the value
\* column named Performance.
ProcessHeatmap(heatmap_series, param_grid) ==
    IF heatmap_series = <<>> THEN <<>>
    ELSE [j \in 1..Len(heatmap_series) |->
            [n1 |-> heatmap_series[j].x.n1, n2 |-> heatmap_series[j].x.n2,
             Performance |-> heatmap_series[j].value]]

\* The search ends: the final run with res.x gives stats, whose
\* _strategy._params are the best parameters; the heatmap is processed.
OptReturn ==
    /\ opt.pc = "search"
    /\ Len(opt.xv) >= 1
    /\ \E x \in SamboBest(opt.xv, opt.funv) :
          opt' = [opt EXCEPT !.pc = "returned",
                             !.best_params = x,
                             !.heatmap_df = ProcessHeatmap(Heatmap(opt.xv, opt.funv),
                                                           opt.grid)]
    /\ UNCHANGED <<wrapped, batch, store, optimizers, calls, strategy, params, data, cash, commission, libFails, pc, i, start,
                   broker, equity, st, stats, error, runNo, firstOutcome>>

\* The optimizer before optimize is called with param_grid.
NewOptimizer(param_grid) ==
    [pc |-> "search", grid |-> param_grid, xv |-> <<>>, funv |-> <<>>,
     best_params |-> [n1 |-> 0, n2 |-> 0], heatmap_df |-> <<>>]

\* ------------------------------------------------------------ result cache
\* StrategyOptimizer's store of optimized parameters: the JSON document
\* results/optimized_params.json and the dictionary every instance loads
\* from it when it is constructed.  A Python object is a record with its
\* type in ty: a number has its value in v, a dict or tuple its items in
\* items.  The text of the document is the JSON value json.dump writes.

\* Most set_optimized_params calls in one behaviour.
MaxCalls == 3
\* The StrategyOptimizer instances alive at one time.
Instances == {1, 2}

PyNone == [ty |-> "None"]
EmptyDict == [ty |-> "dict", items |-> <<>>]

\* dict.get(k, default)
DictGet(d, k, default) == IF k \in DOMAIN d.items THEN d.items[k] ELSE default
\* d[k] = v
DictSet(d, k, v) == [d EXCEPT !.items = (k :> v) @@ d.items]

RECURSIVE Serializable(_)
\* json's default encoder: dict, list and tuple, int, float (numpy's
\* float64 is a float) are encoded; anything else, numpy's int64 and a
\* DataFrame among them, is a TypeError.
Serializable(x) ==
    CASE x.ty \in {"int", "float", "float64"} -> TRUE
      [] x.ty \in {"dict", "tuple", "list"} ->
            \A k \in DOMAIN x.items : Serializable(x.items[k])
      [] OTHER -> FALSE

RECURSIVE Encode(_)
\* json.dump: the JSON value written for a Python object.
Encode(x) ==
    CASE x.ty = "int" -> [json |-> "integer", v |-> x.v]
      [] x.ty \in {"float", "float64"} -> [json |-> "real", v |-> x.v]
      [] x.ty = "dict" ->
            [json |-> "object", items |-> [k \in DOMAIN x.items |-> Encode(x.items[k])]]
      [] x.ty \in {"tuple", "list"} ->
            [json |-> "array", items |-> [k \in DOMAIN x.items |-> Encode(x.items[k])]]

RECURSIVE Decode(_)
\* json.load: the Python object read from a JSON value.
Decode(j) ==
    CASE j.json = "integer" -> [ty |-> "int", v |-> j.v]
      [] j.json = "real" -> [ty |-> "float", v |-> j.v]
      [] j.json = "object" ->
            [ty |-> "dict", items |-> [k \in DOMAIN j.items |-> Decode(j.items[k])]]
      [] j.json = "array" ->
            [ty |-> "list", items |-> [k \in DOMAIN j.items |-> Decode(j.items[k])]]

\* The document: not there, a JSON text, or what is left of a text whose
\* writing stopped in the middle.
Absent == [kind |-> "absent"]
PartialText == [kind |-> "partial"]
JsonText(j) == [kind |-> "json", text |-> j]

\* StrategyOptimizer._load_optimized_params: {} when the file does not
\* exist, json.load otherwise, which raises on a text that is not JSON.
LoadOptimizedParams(doc) ==
    CASE doc.kind = "absent" -> [err |-> "none", value |-> EmptyDict]
      [] doc.kind = "partial" -> [err |-> "JSONDecodeError", value |-> EmptyDict]
      [] OTHER -> [err |-> "none", value |-> Decode(doc.text)]

\* As a bug would have it: the document keeps the text it had.
SaveOptimizedParamsNothing(doc, optimized_params) == [err |-> "none", doc |-> doc]

\* StrategyOptimizer._save_optimized_params: open(path, 'w') empties the
\* file, json.dump(..., indent=4) writes it piece by piece and stops at
\* the first object it cannot encode.
\* As a bug would have it: a write that fails leaves the file as it was.
SaveOptimizedParamsOrKeep(doc, optimized_params) ==
    IF Serializable(optimized_params)
    THEN [err |-> "none", doc |-> JsonText(Encode(optimized_params))]
    ELSE [err |-> "TypeError", doc |-> doc]

SaveOptimizedParams(doc, optimized_params) ==
    IF Serializable(optimized_params)
    THEN [err |-> "none", doc |-> JsonText(Encode(optimized_params))]
    ELSE [err |-> "TypeError", doc |-> PartialText]

\* StrategyOptimizer.get_optimized_params
GetOptimizedParams(optimized_params, strategy_name, data_name) ==
    DictGet(DictGet(optimized_params, strategy_name, EmptyDict), data_name, PyNone)

\* As a bug would have it: the strategy's entry starts anew at every set.
AssignParamsAnew(optimized_params, strategy_name, data_name, p) ==
    DictSet(optimized_params, strategy_name, DictSet(EmptyDict, data_name, p))

\* set_optimized_params, lines 69 to 71: the assignment in memory.
AssignParams(optimized_params, strategy_name, data_name, p) ==
    LET WithEntry(m) == DictSet(m, strategy_name, DictSet(m.items[strategy_name], data_name, p))
    IN WithEntry(IF strategy_name \notin DOMAIN optimized_params.items
                 THEN DictSet(optimized_params, strategy_name, EmptyDict)
                 ELSE optimized_params)

\* StrategyOptimizer.set_optimized_params: the assignment, then the save.
SetOptimizedParams(doc, optimized_params, strategy_name, data_name, p) ==
    LET Saved(m) == [mem |-> m, saved |-> SaveOptimizedParams(doc, m)]
    IN Saved(AssignParams(optimized_params, strategy_name, data_name, p))

\* The variables of a run of run_backtest and of a search.
runVars == <<strategy, params, data, cash, commission, libFails, pc, i, start,
             broker, equity, st, stats, error, runNo, firstOutcome, opt, wrapped>>

NoOptimizer == [state |-> "none", optimized_params |-> EmptyDict, born |-> 0]

\* StrategyOptimizer(strategy, data): __init__ loads the document.  When
\* the load raises there is no instance.
Construct(n) ==
    /\ optimizers[n].state = "none"
    /\ optimizers' = [optimizers EXCEPT ![n] =
          IF LoadOptimizedParams(store).err = "none"
          THEN [state |-> "live", optimized_params |-> LoadOptimizedParams(store).value,
                born |-> Len(calls)]
          ELSE NoOptimizer]
    /\ UNCHANGED <<store, calls, batch>>
    /\ UNCHANGED runVars

\* optimizer.set_optimized_params(strategy_name, data_name, p) on
\* instance n; it returns or raises what the save raises.
SetCall(n, strategy_name, data_name, p) ==
    /\ optimizers[n].state = "live"
    /\ Len(calls) < MaxCalls
    /\ \E r \in {SetOptimizedParams(store, optimizers[n].optimized_params,
                                    strategy_name, data_name, p)} :
          /\ optimizers' = [optimizers EXCEPT ![n].optimized_params = r.mem]
          /\ store' = r.saved.doc
          /\ calls' = Append(calls, [inst |-> n, s |-> strategy_name, a |-> data_name,
                                     p |-> p, err |-> r.saved.err, before |-> store])
    /\ UNCHANGED batch
    /\ UNCHANGED runVars

\* ------------------------------------------------- run_backtests_from_config
\* The batch runner, in its two copies: tools/core.py (called by the app
\* and by its own main) and main.py.  batch.runner says which copy runs.
\* A strategy entry of the configuration is a function from the keys it
\* has to their values; the data source is a directory or a single file,
\* given by the files in it in the order glob lists them, each with what
\* reading it gives.

\* Most strategy entries in one configuration.
MaxEntries == 2
\* The rows add_features loses to the longest indicator window, SMA_20:
\* the first 19 rows have a NaN and dropna removes them.
FeatureWarmup == 19

\* As a bug would have it: whatever the file holds is taken for a frame.
LoadAndPrepareCsvAny(file) == "frame"
\* _load_and_prepare_csv: the frame, or None when reading raised (a text
\* that is no CSV, no Date column) or a required column is absent: the
\* handler of line 20 catches both.
LoadAndPrepareCsv(file) == IF file.reads = "good" THEN "frame" ELSE "None"

\* The names load_data keeps, in the order of the files.
LoadedNames(files) ==
    LET kept == SelectSeq(files, LAMBDA f : LoadAndPrepareCsv(f) # "None")
    IN [k \in 1..Len(kept) |-> kept[k].name]

\* load_data(source_path): one file, a directory of *.csv files, or
\* FileNotFoundError for a path that is neither or a directory without one.
LoadData(source) ==
    CASE source.kind = "file" -> [err |-> "none", names |-> LoadedNames(source.files)]
      [] source.kind = "dir" /\ source.files # <<>> ->
            [err |-> "none", names |-> LoadedNames(source.files)]
      [] OTHER -> [err |-> "FileNotFoundError", names |-> <<>>]

\* add_features: the indicator columns, then dropna.
AddFeatures(df) ==
    IF Len(df) <= FeatureWarmup THEN <<>> ELSE SubSeq(df, FeatureWarmup + 1, Len(df))

\* strategy_config.get(key, default)
ConfigGet(entry, key, default) == IF key \in DOMAIN entry THEN entry[key] ELSE default

\* importlib.import_module / getattr: the strategy modules there are.
StrategyFiles == {"sma_cross_strategy", "weekly_strategy"}

\* bt.run(**params) reads a parameter set as keyword arguments.
KeywordArguments(p) == [k \in DOMAIN p.items |-> p.items[k].v]

\* if optimized_params: an empty dict and None are false.
\* As a bug would have it: what the cache returns is never used.
TruthyNever(x) == FALSE
\* if optimized_params: an empty dict is false.
Truthy(x) == x.ty # "None" /\ ~(x.ty = "dict" /\ DOMAIN x.items = {})

\* stats._strategy._params as optimize returns it: the values are the
\* library's, Python ints or numpy int64, the same kind in one process.
BestParams(x, kind) ==
    [ty |-> "dict", items |-> [k \in DOMAIN x |-> [ty |-> kind, v |-> x[k]]]]

\* What the copy in main.py holds as best_params: the pair optimize
\* returns, unpacked in tools/core.py only.
BestAssigned(runner, best) ==
    IF runner = "main"
    THEN [ty |-> "tuple", items |-> <<best, [ty |-> "DataFrame"]>>]
    ELSE best

IdleBatch ==
    [runner |-> "core", source |-> [kind |-> "dir", files |-> <<>>], assets_to_run |-> <<>>,
     strategies |-> <<>>, env |-> "none", numbers |-> "int",
     pc |-> "idle", loaded |-> <<>>, assets |-> <<>>, ai |-> 0, si |-> 0,
     steps |-> <<>>,
     errors |-> <<>>, logged |-> <<>>, skipped |-> <<>>, returned |-> "nothing", reported |-> <<>>, error |-> "none",
     trace |-> <<>>]

\* ------------------------------------------------------------------ inputs
\* A bar shape is <<open, high, low, close>> in currency units.  The
\* strategies that read closes only and trade at the open get every bar
\* over two price levels whose range is spanned by open and close: a rise,
\* a fall, and a flat bar.
PlainShapes == {<<1, 2, 1, 2>>, <<2, 2, 1, 1>>, <<2, 2, 2, 2>>}
\* For IchimokuStrategy: a cloud below a rising close, and a wide bar.
IchimokuShapes == {<<1, 2, 1, 2>>, <<2, 3, 2, 3>>, <<3, 3, 3, 3>>, <<3, 5, 2, 4>>}
\* For FVGStrategy: gaps between bars two apart, both ways.
FvgShapes == {<<1, 2, 1, 2>>, <<3, 3, 3, 3>>, <<4, 4, 4, 4>>}

ShapesOf(s) ==
    CASE s = "IchimokuStrategy" -> IchimokuShapes
      [] s = "FVGStrategy" -> FvgShapes
      [] OTHER -> PlainShapes

\* The shortest series given to a strategy: the two strategies with long
\* indicator windows get full-length series only.
MinBars(s) == IF s \in {"IchimokuStrategy", "FVGStrategy"} THEN MaxBars ELSE 1

\* The index of the series: consecutive timestamps after 100.
MakeSeries(shapes) ==
    [k \in 1..Len(shapes) |->
        [t |-> 100 + k, o |-> shapes[k][1] * PS, h |-> shapes[k][2] * PS,
         l |-> shapes[k][3] * PS, c |-> shapes[k][4] * PS]]

\* The parameter values of a run: the smallest windows that let every
\* branch of next() happen within MaxBars bars.
ParamsOf(s) ==
    CASE s = "BuyAndHold" -> {[none |-> 0]}
      [] s = "SmaCross" -> {[n1 |-> 1, n2 |-> 2]}
      [] s = "RsiMomentum" -> {[upper_bound |-> 70, lower_bound |-> 30, rsi_period |-> 1]}
      [] s = "PriceLevelStrategy" -> {[lookback_period |-> 2]}
      [] s = "IchimokuStrategy" ->
            {[tenkan_period |-> 1, kijun_period |-> 2, senkou_b_period |-> 2,
              atr_period |-> 1, atr_threshold |-> <<5, 1000>>]}
      [] s = "FVGStrategy" ->
            {[atr_period |-> 2, sl_atr_multiplier |-> 2, tp_atr_multiplier |-> 4,
              fvg_expiry |-> 2, risk_percentage |-> <<2, 100>>]}

SeriesOf(s) ==
    UNION {{MakeSeries(x) : x \in SeqsOver(ShapesOf(s), n)} : n \in MinBars(s)..MaxBars}

\* Initial cash, in money units.  FVGStrategy sizes by risk: with little
\* cash its size rounds to 0, with much it is a number of units.
CashOf(s) == IF s = "FVGStrategy" THEN {MaxCash * MU, 100 * MaxCash * MU}
             ELSE {MaxCash * MU}

Init ==
    /\ strategy \in Strategies
    /\ params \in ParamsOf(strategy)
    /\ data \in SeriesOf(strategy)
    /\ cash \in CashOf(strategy)
    /\ commission \in {0, 1}
    /\ libFails = "unknown"
    /\ wrapped = TRUE
    /\ runNo = 1
    /\ pc = "call"
    /\ i = 0
    /\ start = 0
    /\ broker = NewBroker(cash)
    /\ equity = [k \in 1..N |-> NoEquity]
    /\ st = NewInstance(strategy)
    /\ stats = None
    /\ error = "none"
    /\ firstOutcome = [pc |-> "none", error |-> "none", stats |-> None]
    /\ opt = [NewOptimizer([n1 |-> {1}, n2 |-> {2}]) EXCEPT !.pc = "idle"]
    /\ store = Absent
    /\ optimizers = [n \in Instances |-> NoOptimizer]
    /\ calls = <<>>
    /\ batch = IdleBatch

Next ==
    \/ StartRun
    \/ BrokerStep
    \/ StrategyStep
    \/ LoopEnd
    \/ ComputeStats
    \/ HandleValueError
    \/ GenerateReport

Spec == Init /\ [][Next]_vars

\* Two executions in a row, under a commission that is not 0.
InitTwice == Init /\ commission > 0
NextTwice == Next \/ SecondRun
SpecTwice == InitTwice /\ [][NextTwice]_vars

\* ------------------------------------------------------------------ claims
\* C1: at every point of the bar loop of a run, whatever the strategy, at
\* most one trade is open: no entry request adds a second open position.
C1_SinglePosition == Len(broker.trades) <= 1

\* A run of SmaCross, which buys without looking at the position, holding
\* the position of its second entry after the first was closed.
C1_Witness ==
    /\ strategy = "SmaCross"
    /\ pc = "next"
    /\ Len(broker.trades) = 1
    /\ Len(broker.closed) >= 1

\* The series with bar j replaced by the bar of shape x (same timestamp).
Replace(d, j, x) ==
    [d EXCEPT ![j] = [t |-> d[j].t, o |-> x[1] * PS, h |-> x[2] * PS,
                      l |-> x[3] * PS, c |-> x[4] * PS]]

\* C2: no look-ahead.  When next is about to run at bar i, the orders it
\* leaves queued are the same whatever any bar later than i is replaced by.
C2_NoLookAhead ==
    pc = "next" =>
        \A j \in (i + 1)..N : \A x \in ShapesOf(strategy) :
            WrapperNext(strategy, params, Replace(data, j, x), i, broker, st).b.orders
                = WrapperNext(strategy, params, data, i, broker, st).b.orders

\* Both the stop-loss and the take-profit of a trade lie within the bar.
Straddles(bar, t) ==
    /\ t.sl # 0 /\ t.tp # 0
    /\ bar.l <= t.sl /\ t.sl <= bar.h
    /\ bar.l <= t.tp /\ t.tp <= bar.h

\* C3: stop-loss precedence.  A trade carrying a stop-loss and a
\* take-profit does not stay open over a bar whose range contains both,
\* and a trade closed on such a bar was closed by its stop-loss order at
\* the stop price.
C3_StopLossPrecedence ==
    /\ pc = "next" =>
          \A j \in 1..Len(broker.trades) : ~Straddles(data[i], broker.trades[j])
    /\ \A j \in 1..Len(broker.closed) :
          Straddles(data[broker.closed[j].xbar], broker.closed[j])
              => broker.closed[j].by = "sl" /\ broker.closed[j].exit = broker.closed[j].sl

\* C4: forced liquidation.  When the bar loop of a strategy other than
\* BuyAndHold has run to its end no trade is open, and a trade closed on
\* the final bar went at the final close.
C4_ForcedLiquidation ==
    (pc = "stats" /\ i = N /\ strategy # "BuyAndHold") =>
        /\ broker.trades = <<>>
        /\ \A j \in 1..Len(broker.closed) :
              (broker.closed[j].xbar = N /\ broker.closed[j].by = "close")
                  => broker.closed[j].exit = data[N].c

\* No fill happened in the run: no trade open, none in the ledger.
ZeroTrades == broker.trades = <<>> /\ broker.closed = <<>>

\* C5: a run that executed zero trades and has ended has raised nothing
\* and returned statistics with Equity Final the initial cash, Return 0.
C5_ZeroTradeRun ==
    (pc \in {"done", "raised"} /\ ZeroTrades) =>
        /\ pc = "done"
        /\ stats.kind # "none"
        /\ stats.EquityFinal = cash
        /\ stats.Return = Q(0, 1)

\* C6: the statistics of a zero-trade run that got as far as the
\* statistics are the neutral ones: a curve of one point per bar at the
\* bars' timestamps, flat at the initial cash; Sharpe, Sortino, annualized
\* return and trade count 0; an empty ledger.
C6_NeutralRunStats ==
    (/\ ZeroTrades
     /\ \/ pc \in {"report", "done"}
        \/ pc = "raised" /\ error \in {"TypeError", "ValueError:regression"}) =>
        /\ stats.kind # "none"
        /\ Len(stats.curve) = N
        /\ \A k \in 1..N : stats.curve[k] = [t |-> data[k].t, e |-> cash]
        /\ stats.Sharpe = "0" /\ stats.Sortino = "0" /\ stats.ReturnAnn = "0"
        /\ stats.NTrades = 0 /\ stats.trades = <<>>

\* C7: whenever a run has statistics, their equity curve has one point
\* per bar of the series, at the bars' timestamps in the series' order.
C7_EquityCurveShape ==
    stats.kind # "none" =>
        /\ Len(stats.curve) = N
        /\ \A k \in 1..N : stats.curve[k].t = data[k].t

\* A run whose first next() was delayed by the warm-up, returned with
\* trades in its ledger.
C7_Witness ==
    /\ pc = "done"
    /\ start > 2
    /\ stats.kind = "library"
    /\ stats.NTrades > 0

\* (exit - entry) * size less the commission rate times both notionals,
\* in money units; size is negative for a short round trip.
RoundTripPnl(size, entry, exit) ==
    size * (exit - entry) * CD - commission * (entry * Abs(size) + exit * Abs(size))

\* C8: commission is charged on the opening and on the closing fill: the
\* PnL of every round trip of the ledger is the price difference times the
\* size less the commission on both notionals, and a run that is flat
\* holds its initial cash plus exactly these.
C8_CommissionBothFills ==
    /\ stats.kind = "library" =>
          \A j \in 1..Len(stats.trades) :
              stats.trades[j].PnL = RoundTripPnl(stats.trades[j].Size,
                                                 stats.trades[j].EntryPrice,
                                                 stats.trades[j].ExitPrice)
    /\ broker.trades = <<>> =>
          broker.cash = cash + SumSeq([j \in 1..Len(broker.closed) |->
                                         RoundTripPnl(broker.closed[j].size,
                                                      broker.closed[j].entry,
                                                      broker.closed[j].exit)])

\* A ledger holding a long round trip at a price difference, under a
\* commission that is not 0.
C8_Witness ==
    /\ stats.kind = "library"
    /\ commission > 0
    /\ \E j \in 1..Len(stats.trades) :
          stats.trades[j].Size > 0 /\ stats.trades[j].ExitPrice # stats.trades[j].EntryPrice

\* C9: determinism.  The second execution of run_backtest with the same
\* arguments ends as the first did: the same exception or the same
\* statistics, trade ledger and equity curve included.
C9_Determinism ==
    (runNo = 2 /\ pc \in {"done", "raised"}) => Outcome = firstOutcome

\* A second execution that returned statistics with trades in the ledger.
C9_Witness ==
    /\ runNo = 2
    /\ pc = "done"
    /\ stats.NTrades > 0

\* The grids given to optimize: values in steps, as the strategies declare
\* them with min, max and step.
ParamGrids == {[n1 |-> {1, 2}, n2 |-> {2, 3}], [n1 |-> {1}, n2 |-> {2, 4}]}

\* optimize is called on one series for one strategy; no run_backtest.
InitOptimize ==
    /\ strategy = "SmaCross"
    /\ params \in ParamsOf(strategy)
    /\ data = MakeSeries(<<<<1, 2, 1, 2>>>>)
    /\ cash = MaxCash * MU
    /\ commission = 0
    /\ libFails = "unknown"
    /\ wrapped = TRUE
    /\ runNo = 1
    /\ pc = "idle"
    /\ i = 0
    /\ start = 0
    /\ broker = NewBroker(cash)
    /\ equity = [k \in 1..N |-> NoEquity]
    /\ st = NewInstance(strategy)
    /\ stats = None
    /\ error = "none"
    /\ firstOutcome = [pc |-> "none", error |-> "none", stats |-> None]
    /\ opt \in {NewOptimizer(g) : g \in ParamGrids}
    /\ store = Absent
    /\ optimizers = [n \in Instances |-> NoOptimizer]
    /\ calls = <<>>
    /\ batch = IdleBatch

NextOptimize == OptEvaluate \/ OptReturn
SpecOptimize == InitOptimize /\ [][NextOptimize]_vars

\* C10: the best parameters optimize returns are a row of the score
\* surface it returns, and no row of the surface has a higher score.
C10_OptimizationMonotonicity ==
    opt.pc = "returned" =>
        \E j \in 1..Len(opt.heatmap_df) :
            /\ opt.heatmap_df[j].n1 = opt.best_params.n1
            /\ opt.heatmap_df[j].n2 = opt.best_params.n2
            /\ \A k \in 1..Len(opt.heatmap_df) :
                  opt.heatmap_df[j].Performance >= opt.heatmap_df[k].Performance

\* A surface returned with rows of different scores.
C10_Witness ==
    /\ opt.pc = "returned"
    /\ \E j, k \in 1..Len(opt.heatmap_df) :
          opt.heatmap_df[j].Performance > opt.heatmap_df[k].Performance

\* ------------------------------------------------------- the cache's inputs
StrategyNames == {"SmaCross", "RsiMomentum"}
AssetNames == {"A", "B"}
\* The keys written: two assets of one strategy and another strategy.
Keys == {<<"SmaCross", "A">>, <<"SmaCross", "B">>, <<"RsiMomentum", "A">>}
\* Parameter sets as the callers hold them: Python ints, numpy float64
\* and numpy int64 values.
ParameterSets ==
    {[ty |-> "dict", items |-> [n1 |-> [ty |-> t, v |-> 5], n2 |-> [ty |-> t, v |-> 15]]] :
        t \in {"int", "float64", "int64"}}
\* What the document may hold when the first instance is constructed.
Documents ==
    {Absent, PartialText, JsonText(Encode(EmptyDict))}
    \cup {JsonText(Encode(AssignParams(EmptyDict, "SmaCross", a,
                [ty |-> "dict", items |-> [n1 |-> [ty |-> "int", v |-> 10],
                                            n2 |-> [ty |-> "int", v |-> 20]]]))) :
             a \in AssetNames}

InitCache ==
    /\ strategy = "SmaCross"
    /\ params \in ParamsOf(strategy)
    /\ data = MakeSeries(<<<<1, 2, 1, 2>>>>)
    /\ cash = MaxCash * MU
    /\ commission = 0
    /\ libFails = "unknown"
    /\ wrapped = TRUE
    /\ runNo = 1
    /\ pc = "idle"
    /\ i = 0
    /\ start = 0
    /\ broker = NewBroker(cash)
    /\ equity = [k \in 1..N |-> NoEquity]
    /\ st = NewInstance(strategy)
    /\ stats = None
    /\ error = "none"
    /\ firstOutcome = [pc |-> "none", error |-> "none", stats |-> None]
    /\ opt = [NewOptimizer([n1 |-> {1}, n2 |-> {2}]) EXCEPT !.pc = "idle"]
    /\ store \in Documents
    /\ optimizers = [n \in Instances |-> NoOptimizer]
    /\ calls = <<>>
    /\ batch = IdleBatch

NextCache ==
    \/ \E n \in Instances : Construct(n)
    \/ \E n \in Instances, k \in Keys, p \in ParameterSets : SetCall(n, k[1], k[2], p)

SpecCache == InitCache /\ [][NextCache]_vars

\* The frame of an asset's file: FeatureWarmup rows, then the rows the
\* run sees.  Asset A crosses up and is closed out; asset B never trades.
AssetRows(a) ==
    IF a = "A"
    THEN <<<<2, 2, 1, 1>>, <<1, 2, 1, 2>>, <<2, 2, 1, 1>>, <<1, 2, 1, 2>>, <<2, 2, 1, 1>>>>
    ELSE <<<<1, 2, 1, 2>>, <<2, 2, 1, 1>>, <<1, 1, 1, 1>>, <<1, 1, 1, 1>>>>
AssetFrame(a) ==
    MakeSeries([k \in 1..FeatureWarmup |-> IF k % 2 = 1 THEN <<1, 2, 1, 2>> ELSE <<2, 2, 1, 1>>]
               \o AssetRows(a))

\* error_msg of the except clause: the strategy, the asset, the exception.
ErrorMsg(strategy_name, asset_name, e) == [s |-> strategy_name, a |-> asset_name, e |-> e]

\* One step of a combination as the trace keeps it.
Step(op, arg, err) == [op |-> op, arg |-> arg, err |-> err]

\* As a bug would have it: what the body raised leaves the function.
ExceptLeaving(b, e, steps) == [b EXCEPT !.pc = "raised", !.error = e]
\* The except clause of the loop body: the message is logged at once and,
\* in tools/core.py, collected; the loop goes on with the next strategy.
Except(b, e, steps) ==
    LET msg == ErrorMsg(b.strategies[b.si].name, b.assets[b.ai], e)
    IN [b EXCEPT !.logged = Append(@, msg),
                 !.errors = IF b.runner = "core" THEN Append(@, msg) ELSE @,
                 !.trace = Append(@, [si |-> b.si, a |-> b.assets[b.ai], ok |-> FALSE,
                                      steps |-> steps]),
                 !.steps = <<>>,
                 !.si = @ + 1,
                 !.pc = "entry"]

\* The combination went through: the next strategy.
Completed(b, steps) ==
    [b EXCEPT !.trace = Append(@, [si |-> b.si, a |-> b.assets[b.ai], ok |-> TRUE,
                                   steps |-> steps]),
              !.steps = <<>>,
              !.si = @ + 1,
              !.pc = "entry"]

\* The environment makes step fail for the combinations on asset A.
EnvFails(b, step) == b.env = step /\ b.assets[b.ai] = "A"

\* The head of the function: settings, load_data, the assets to run.
BatchStart ==
    /\ batch.pc = "start"
    /\ \E r \in {LoadData(batch.source)} :
          batch' =
             IF r.err # "none"
             THEN [batch EXCEPT !.pc = "raised", !.error = r.err]
             ELSE IF r.names = <<>>
             THEN [batch EXCEPT !.pc = "returned",
                                !.returned = IF batch.runner = "core" THEN "list" ELSE "None",
                                !.errors = IF batch.runner = "core"
                                           THEN <<"No data loaded.">> ELSE <<>>]
             ELSE [batch EXCEPT !.pc = "asset",
                                !.loaded = r.names,
                                !.assets = IF batch.assets_to_run = <<>> THEN r.names
                                           ELSE batch.assets_to_run,
                                !.ai = 1]
    /\ UNCHANGED <<store, optimizers, calls>>
    /\ UNCHANGED runVars

\* The head of the asset loop: the end of the batch, an asset without
\* data skipped with a warning, or the asset's strategies.
BatchAsset ==
    /\ batch.pc = "asset"
    /\ batch' =
          IF batch.ai > Len(batch.assets)
          THEN [batch EXCEPT !.pc = "returned",
                             !.returned = IF batch.runner = "core" THEN "list" ELSE "None"]
          ELSE IF \A k \in 1..Len(batch.loaded) : batch.loaded[k] # batch.assets[batch.ai]
          THEN [batch EXCEPT !.ai = @ + 1,
                             !.skipped = Append(@, batch.assets[batch.ai])]
          ELSE [batch EXCEPT !.si = 1, !.pc = "entry"]
    /\ UNCHANGED <<store, optimizers, calls>>
    /\ UNCHANGED runVars

\* What the body raises before the optimizer is asked anything: the
\* entry's file, the import, add_features, StrategyOptimizer's load.
HeadError(b, doc) ==
    LET e == b.strategies[b.si]
    IN CASE "file" \notin DOMAIN e -> "KeyError"
         [] e.file \notin StrategyFiles -> "ModuleNotFoundError"
         [] EnvFails(b, "features") -> "FeatureError"
         [] LoadOptimizedParams(doc).err # "none" -> LoadOptimizedParams(doc).err
         [] OTHER -> "none"

\* run_backtest is called with the features frame and params.
CallRunBacktest(features_df, p) ==
    /\ strategy' = batch.strategies[batch.si].name
    /\ params' = KeywordArguments(p)
    /\ data' = features_df
    /\ cash' = MaxCash * MU
    /\ commission' = 1
    /\ pc' = "call"
    /\ stats' = None
    /\ error' = "none"
    /\ wrapped' = TRUE
    /\ UNCHANGED <<libFails, i, start, broker, equity, st, runNo, firstOutcome>>

\* The head of the strategy loop and the body up to its first call of
\* optimize or run_backtest.  strategy_config['name'] is read before the
\* try statement: a KeyError there leaves the function.
BatchEntry ==
    /\ batch.pc = "entry"
    /\ IF batch.si > Len(batch.strategies)
       THEN /\ batch' = [batch EXCEPT !.ai = @ + 1, !.pc = "asset"]
            /\ UNCHANGED <<store, optimizers, calls>>
            /\ UNCHANGED runVars
       ELSE IF "name" \notin DOMAIN batch.strategies[batch.si]
       THEN /\ batch' = [batch EXCEPT !.pc = "raised", !.error = "KeyError"]
            /\ UNCHANGED <<store, optimizers, calls>>
            /\ UNCHANGED runVars
       ELSE IF HeadError(batch, store) # "none"
       THEN /\ batch' = Except(batch, HeadError(batch, store),
                               <<Step("body", PyNone, HeadError(batch, store))>>)
            /\ UNCHANGED <<store, optimizers, calls>>
            /\ UNCHANGED runVars
       ELSE /\ optimizers' = [optimizers EXCEPT ![1] =
                  [state |-> "live", optimized_params |-> LoadOptimizedParams(store).value,
                   born |-> Len(calls)]]
            /\ UNCHANGED <<store, calls>>
            /\ IF ConfigGet(batch.strategies[batch.si], "optimize", FALSE)
               THEN IF EnvFails(batch, "optimize")
                    THEN /\ batch' = Except(batch, "OptimizeError",
                                            <<Step("optimize", PyNone, "OptimizeError")>>)
                         /\ UNCHANGED runVars
                    ELSE /\ batch' = [batch EXCEPT !.pc = "optimize"]
                         /\ opt' = NewOptimizer(batch.strategies[batch.si].param_ranges)
                         /\ UNCHANGED <<wrapped, strategy, params, data, cash, commission, libFails, pc, i,
                                        start, broker, equity, st, stats, error, runNo,
                                        firstOutcome>>
               ELSE \E cached \in {GetOptimizedParams(LoadOptimizedParams(store).value,
                                                      batch.strategies[batch.si].name,
                                                      batch.assets[batch.ai])} :
                       \E p \in {IF Truthy(cached) THEN cached
                                 ELSE batch.strategies[batch.si].params} :
                          /\ batch' = [batch EXCEPT !.pc = "run",
                                                    !.steps = <<Step("get", cached, "none"),
                                                                Step("run", p, "none")>>]
                          /\ CallRunBacktest(AddFeatures(AssetFrame(batch.assets[batch.ai])), p)
                          /\ UNCHANGED opt

\* optimize has returned: the heatmap is saved (tools/core.py), the best
\* parameters are written to the cache and the final run is called.
BatchOptimized ==
    /\ batch.pc = "optimize"
    /\ opt.pc = "returned"
    /\ opt' = [NewOptimizer([n1 |-> {1}, n2 |-> {2}]) EXCEPT !.pc = "idle"]
    /\ \E best \in {BestAssigned(batch.runner, BestParams(opt.best_params, batch.numbers))} :
          IF batch.runner = "core" /\ EnvFails(batch, "heatmap")
          THEN /\ batch' = Except(batch, "HeatmapError",
                                  <<Step("optimize", best, "none"),
                                    Step("heatmap", PyNone, "HeatmapError")>>)
               /\ UNCHANGED <<store, optimizers, calls>>
               /\ UNCHANGED <<wrapped, strategy, params, data, cash, commission, libFails, pc, i,
                              start, broker, equity, st, stats, error, runNo, firstOutcome>>
          ELSE \E r \in {SetOptimizedParams(store, optimizers[1].optimized_params,
                                            batch.strategies[batch.si].name,
                                            batch.assets[batch.ai], best)} :
                  /\ optimizers' = [optimizers EXCEPT ![1].optimized_params = r.mem]
                  /\ store' = r.saved.doc
                  /\ calls' = Append(calls, [inst |-> 1, s |-> batch.strategies[batch.si].name,
                                             a |-> batch.assets[batch.ai], p |-> best,
                                             err |-> r.saved.err, before |-> store])
                  /\ IF r.saved.err # "none"
                     THEN /\ batch' = Except(batch, r.saved.err,
                                             <<Step("optimize", best, "none"),
                                               Step("set", best, r.saved.err)>>)
                          /\ UNCHANGED <<wrapped, strategy, params, data, cash, commission, libFails, pc,
                                         i, start, broker, equity, st, stats, error, runNo,
                                         firstOutcome>>
                     ELSE /\ batch' = [batch EXCEPT !.pc = "run",
                                                    !.steps = <<Step("optimize", best, "none"),
                                                                Step("set", best, "none"),
                                                                Step("run", best, "none")>>]
                          /\ CallRunBacktest(AddFeatures(AssetFrame(batch.assets[batch.ai])),
                                             best)

\* optimize raised: the except clause of the entry takes the exception.
BatchOptimizeRaised ==
    /\ batch.pc = "optimize"
    /\ opt.pc = "raised"
    /\ opt' = [NewOptimizer([n1 |-> {1}, n2 |-> {2}]) EXCEPT !.pc = "idle"]
    /\ error' = "none"
    /\ batch' = Except(batch, error, <<Step("optimize", PyNone, error)>>)
    /\ UNCHANGED <<store, optimizers, calls>>
    /\ UNCHANGED <<wrapped, strategy, params, data, cash, commission, libFails, pc, i, start,
                   broker, equity, st, stats, runNo, firstOutcome>>

\* run_backtest has returned or raised: the results are saved for the
\* dashboard, or the except clause takes what was raised.
BatchRunReturned ==
    /\ batch.pc = "run"
    /\ pc \in {"done", "raised"}
    /\ pc' = "idle"
    /\ batch' =
          IF pc = "raised"
          THEN Except(batch, error, [batch.steps EXCEPT ![Len(batch.steps)].err = error])
          ELSE IF EnvFails(batch, "save")
          THEN Except(batch, "OSError", Append(batch.steps, Step("save", PyNone, "OSError")))
          ELSE Completed(batch, Append(batch.steps, Step("save", PyNone, "none")))
    /\ UNCHANGED <<store, optimizers, calls>>
    /\ UNCHANGED <<wrapped, strategy, params, data, cash, commission, libFails, i, start, broker,
                   equity, st, stats, error, runNo, firstOutcome, opt>>

\* main of tools/core.py after the call: the errors, when there are any,
\* are printed.  main.py's copy returns nothing and its caller prints
\* nothing.
MainReport ==
    /\ batch.pc = "returned"
    /\ batch' = [batch EXCEPT !.pc = "exit",
                              !.reported = IF batch.runner = "core" THEN batch.errors ELSE <<>>]
    /\ UNCHANGED <<store, optimizers, calls>>
    /\ UNCHANGED runVars

\* ------------------------------------------------------ the batch's inputs
\* A parameter set of a configuration file.
ConfigParams(n1, n2) ==
    [ty |-> "dict", items |-> [n1 |-> [ty |-> "int", v |-> n1], n2 |-> [ty |-> "int", v |-> n2]]]

\* Strategy entries: a plain one, one that optimizes, one without its
\* name, one without its file, one whose file names no module.
PlainEntry == [name |-> "SmaCross", file |-> "sma_cross_strategy", params |-> ConfigParams(1, 3)]
OptimizingEntry ==
    [name |-> "SmaCross", file |-> "sma_cross_strategy", params |-> ConfigParams(1, 3),
     optimize |-> TRUE, param_ranges |-> [n1 |-> {1}, n2 |-> {2}]]
NamelessEntry == [file |-> "sma_cross_strategy", params |-> ConfigParams(1, 3)]
FilelessEntry == [name |-> "SmaCross", params |-> ConfigParams(1, 3)]
StrayEntry == [name |-> "SmaCross", file |-> "no_such_strategy", params |-> ConfigParams(1, 3)]
Entries == {PlainEntry, OptimizingEntry, NamelessEntry, FilelessEntry, StrayEntry}
\* An entry of PriceLevelStrategy whose lookback is no window.
LookbackEntry(n) ==
    [name |-> "PriceLevelStrategy", file |-> "weekly_strategy",
     params |-> [ty |-> "dict", items |-> [lookback_period |-> [ty |-> "int", v |-> n]]]]

\* What reading an asset's file gives; "missing" is no file.
Readings == {"good", "malformed", "nocolumn", "missing"}

\* The files of a directory in the order glob lists them.
FilesOf(order, reads) ==
    SelectSeq([k \in 1..Len(order) |-> [name |-> order[k], reads |-> reads[order[k]]]],
              LAMBDA f : f.reads # "missing")

\* Data sources: a directory with a file or none for each asset, a single
\* file, a path that is neither.
Sources ==
    {[kind |-> "dir", files |-> FilesOf(order, reads)] :
        order \in {<<"A", "B">>, <<"B", "A">>}, reads \in [AssetNames -> Readings]}
    \cup {[kind |-> "file", files |-> <<[name |-> "A", reads |-> r]>>] :
             r \in Readings \ {"missing"}}
    \cup {[kind |-> "nopath", files |-> <<>>]}

\* Batches whose data sources go wrong.
DataErrorInputs ==
    [runner : {"core", "main"},
     source : Sources,
     assets_to_run : {<<>>, <<"A">>, <<"B">>, <<"A", "B">>, <<"B", "A">>},
     strategies : {<<PlainEntry>>, <<OptimizingEntry, PlainEntry>>},
     env : {"none"},
     numbers : {"int"},
     doc : {Absent}]

\* Batches on two good files whose steps go wrong.
FailureInputs ==
    [runner : {"core", "main"},
     source : {[kind |-> "dir", files |-> FilesOf(<<"A", "B">>, [a \in AssetNames |-> "good"])]},
     assets_to_run : {<<>>, <<"B", "A">>},
     strategies : UNION {SeqsOver(Entries, n) : n \in 1..MaxEntries},
     env : {"none", "features", "optimize", "heatmap", "save"},
     numbers : {"int", "int64"},
     doc : {Absent, PartialText,
            JsonText(Encode(AssignParams(EmptyDict, "SmaCross", "A", ConfigParams(1, 2))))}]

\* Batches on two good files with an entry whose lookback is 0 or negative
\* before or after a plain one.
LookbackInputs ==
    [runner : {"core", "main"},
     source : {[kind |-> "dir", files |-> FilesOf(<<"A", "B">>, [a \in AssetNames |-> "good"])]},
     assets_to_run : {<<>>},
     strategies : UNION {{<<LookbackEntry(n), PlainEntry>>, <<PlainEntry, LookbackEntry(n)>>} :
                            n \in {0 - 1, 0}},
     env : {"none"},
     numbers : {"int"},
     doc : {Absent}]

InitBatch ==
    /\ strategy = "SmaCross"
    /\ params \in ParamsOf(strategy)
    /\ data = MakeSeries(<<<<1, 2, 1, 2>>>>)
    /\ cash = MaxCash * MU
    /\ commission = 0
    /\ libFails = "unknown"
    /\ wrapped = TRUE
    /\ runNo = 1
    /\ pc = "idle"
    /\ i = 0
    /\ start = 0
    /\ broker = NewBroker(cash)
    /\ equity = [k \in 1..N |-> NoEquity]
    /\ st = NewInstance(strategy)
    /\ stats = None
    /\ error = "none"
    /\ firstOutcome = [pc |-> "none", error |-> "none", stats |-> None]
    /\ opt = [NewOptimizer([n1 |-> {1}, n2 |-> {2}]) EXCEPT !.pc = "idle"]
    /\ optimizers = [n \in Instances |-> NoOptimizer]
    /\ calls = <<>>
    /\ \E in \in DataErrorInputs \cup FailureInputs \cup LookbackInputs :
          /\ store = in.doc
          /\ batch = [IdleBatch EXCEPT !.runner = in.runner, !.source = in.source,
                                       !.assets_to_run = in.assets_to_run,
                                       !.strategies = in.strategies, !.env = in.env,
                                       !.numbers = in.numbers, !.pc = "start"]

NextBatch ==
    \/ BatchStart
    \/ BatchAsset
    \/ BatchEntry
    \/ OptEvaluate
    \/ OptReturn
    \/ BatchOptimized
    \/ BatchOptimizeRaised
    \/ StartRun
    \/ BrokerStep
    \/ StrategyStep
    \/ LoopEnd
    \/ ComputeStats
    \/ HandleValueError
    \/ GenerateReport
    \/ BatchRunReturned
    \/ MainReport

SpecBatch == InitBatch /\ [][NextBatch]_vars


\* ------------------------------------------------- runs without the wrapper
\* Backtest(data, strategy, cash=..., commission=.002).run() as
\* tools/optimizer.py and tests/test_strategy.py construct it: the class
\* is the strategy's own, no position is closed by a wrapper, and there is
\* no report.  The series are one bar longer than run_backtest's.
InitBare ==
    /\ strategy = "SmaCross"
    /\ params \in ParamsOf(strategy)
    /\ data \in {MakeSeries(x) : x \in SeqsOver(PlainShapes, MaxBars + 1)}
    /\ cash = MaxCash * MU
    /\ commission \in {0, 1}
    /\ libFails = "unknown"
    /\ wrapped = FALSE
    /\ runNo = 1
    /\ pc = "call"
    /\ i = 0
    /\ start = 0
    /\ broker = NewBroker(cash)
    /\ equity = [k \in 1..N |-> NoEquity]
    /\ st = NewInstance(strategy)
    /\ stats = None
    /\ error = "none"
    /\ firstOutcome = [pc |-> "none", error |-> "none", stats |-> None]
    /\ opt = [NewOptimizer([n1 |-> {1}, n2 |-> {2}]) EXCEPT !.pc = "idle"]
    /\ store = Absent
    /\ optimizers = [n \in Instances |-> NoOptimizer]
    /\ calls = <<>>
    /\ batch = IdleBatch

NextBare ==
    \/ StartRun
    \/ BrokerStep
    \/ StrategyStep
    \/ LoopEnd

SpecBare == InitBare /\ [][NextBare]_vars

\* ------------------------------------------------------- the cache's claims
RECURSIVE PyEq(_, _)
\* Python's ==: numbers by value whatever their type, dicts item by item.
PyEq(x, y) ==
    CASE x.ty \in {"int", "float", "int64", "float64"}
         /\ y.ty \in {"int", "float", "int64", "float64"} -> x.v = y.v
      [] x.ty = "dict" /\ y.ty = "dict" ->
            /\ DOMAIN x.items = DOMAIN y.items
            /\ \A k \in DOMAIN x.items : PyEq(x.items[k], y.items[k])
      [] x.ty = "None" /\ y.ty = "None" -> TRUE
      [] OTHER -> FALSE

\* What a document holds under (s, a), None when it holds nothing there
\* or cannot be read.
Persisted(doc, s, a) ==
    IF LoadOptimizedParams(doc).err = "none"
    THEN GetOptimizedParams(LoadOptimizedParams(doc).value, s, a)
    ELSE PyNone

\* The last call among calls 1..n for the key (s, a), 0 when there is none.
LastSet(s, a) ==
    LET js == {j \in 1..Len(calls) : calls[j].s = s /\ calls[j].a = a}
    IN IF js = {} THEN 0 ELSE CHOOSE j \in js : \A k \in js : k <= j

\* C11: once set_optimized_params(s, a, p) has returned, get_optimized_params(s, a)
\* on the same instance returns p, whatever the store held before (until a
\* later set through that instance for the same key).
C11_CacheRoundTrip ==
    \A j \in 1..Len(calls) :
        (/\ calls[j].err = "none"
         /\ \A k \in (j + 1)..Len(calls) :
               ~(calls[k].inst = calls[j].inst /\ calls[k].s = calls[j].s
                 /\ calls[k].a = calls[j].a))
        => GetOptimizedParams(optimizers[calls[j].inst].optimized_params,
                              calls[j].s, calls[j].a) = calls[j].p

\* A set over a store that held another asset of the same strategy and a
\* set for another key after it, both returned.
C11_Witness ==
    /\ Len(calls) >= 2
    /\ calls[1].err = "none" /\ calls[2].err = "none"
    /\ calls[1].inst = calls[2].inst
    /\ calls[1].s = calls[2].s /\ calls[1].a # calls[2].a
    /\ calls[1].before.kind = "json"

\* C12: once the latest set_optimized_params(s, a, p) has returned, the
\* document holds p under (s, a), and every instance constructed since
\* returns p from get_optimized_params(s, a).
C12_DurableSet ==
    Len(calls) >= 1 /\ calls[Len(calls)].err = "none" =>
        LET c == calls[Len(calls)]
        IN /\ PyEq(Persisted(store, c.s, c.a), c.p)
           /\ \A n \in Instances :
                 optimizers[n].state = "live" /\ optimizers[n].born = Len(calls)
                 => PyEq(GetOptimizedParams(optimizers[n].optimized_params, c.s, c.a), c.p)

\* Another instance constructed after a set of numpy float64 values returned.
C12_Witness ==
    /\ Len(calls) >= 1 /\ calls[Len(calls)].err = "none"
    /\ calls[Len(calls)].p.items.n1.ty = "float64"
    /\ \E n \in Instances :
          /\ n # calls[Len(calls)].inst
          /\ optimizers[n].state = "live" /\ optimizers[n].born = Len(calls)

\* C13: when every set_optimized_params call made so far has returned, the
\* document holds under every key the value of the latest set for it, and
\* every set left the document's value under every other key as it was.
C13_LastWriteWins ==
    (\A j \in 1..Len(calls) : calls[j].err = "none") =>
        /\ \A s \in StrategyNames, a \in AssetNames :
              LastSet(s, a) # 0 => PyEq(Persisted(store, s, a), calls[LastSet(s, a)].p)
        /\ \A j \in 1..Len(calls), s \in StrategyNames, a \in AssetNames :
              <<s, a>> # <<calls[j].s, calls[j].a>> =>
                  PyEq(Persisted(IF j < Len(calls) THEN calls[j + 1].before ELSE store, s, a),
                       Persisted(calls[j].before, s, a))

\* -------------------------------------------------------- the batch's claims
\* The assets of a batch that have data: those asked for, or every one
\* when none is asked for, whose file reads well.
AssetsWithData(b) ==
    LET good == {f.name : f \in {b.source.files[k] : k \in 1..Len(b.source.files)}
                                \cap {f \in {b.source.files[k] : k \in 1..Len(b.source.files)} :
                                         f.reads = "good"}}
        names == [k \in 1..Len(b.source.files) |-> b.source.files[k].name]
    IN SelectSeq(IF b.assets_to_run = <<>> THEN names ELSE b.assets_to_run,
                 LAMBDA a : a \in good)

\* The combinations of a batch, asset by asset and strategy by strategy.
Combinations(b) ==
    [k \in 1..(Len(AssetsWithData(b)) * Len(b.strategies)) |->
        [si |-> ((k - 1) % Len(b.strategies)) + 1,
         a |-> AssetsWithData(b)[((k - 1) \div Len(b.strategies)) + 1]]]

\* The combinations gone through so far, in the order they were.
Processed(b) == [k \in 1..Len(b.trace) |-> [si |-> b.trace[k].si, a |-> b.trace[k].a]]

\* The function is over: it returned or an exception left it.
Over(b) == b.pc \in {"returned", "exit", "raised"}

\* C14: whatever combinations fail, at whatever step, every combination
\* of a batch whose data was loaded is gone through exactly once, asset
\* by asset and strategy by strategy, and the function returns.
C14_BatchErrorIsolation ==
    (Over(batch) /\ AssetsWithData(batch) # <<>>) =>
        /\ batch.pc # "raised"
        /\ Processed(batch) = Combinations(batch)

\* The messages of the combinations that failed, in their order.
FailedMessages(b) ==
    LET failed == SelectSeq(b.trace, LAMBDA c : ~c.ok)
    IN [k \in 1..Len(failed) |->
           ErrorMsg(b.strategies[failed[k].si].name, failed[k].a,
                    failed[k].steps[Len(failed[k].steps)].err)]

\* C15: when run_backtests_from_config of tools/core.py is over on a batch
\* whose data was loaded, it has returned a list, every combination has
\* been gone through and the list holds one message for each that failed,
\* in their order, and no other; main prints messages only after that.
C15_ErrorCollection ==
    /\ (Over(batch) /\ batch.runner = "core" /\ AssetsWithData(batch) # <<>>) =>
          /\ batch.returned = "list"
          /\ Processed(batch) = Combinations(batch)
          /\ batch.errors = FailedMessages(batch)
    /\ batch.reported # <<>> => batch.pc = "exit"

\* The assets asked for whose file is absent or does not read well.
AssetsWithoutData(b) ==
    {a \in AssetNames :
        /\ b.assets_to_run = <<>> \/ \E k \in 1..Len(b.assets_to_run) : b.assets_to_run[k] = a
        /\ \A k \in 1..Len(AssetsWithData(b)) : AssetsWithData(b)[k] # a}

\* C16: an asset whose file is absent, is no CSV or lacks a column stops
\* nothing but itself: no exception of its reading leaves the function
\* while another file is there, none of its combinations is gone
\* through, the combinations gone through are at any time the first ones
\* of the assets with data in their order, and they are all of them when
\* the function returns.
C16_DataErrorIsolation ==
    /\ batch.error = "FileNotFoundError" => batch.source.files = <<>>
    /\ \A k \in 1..Len(batch.trace) : batch.trace[k].a \notin AssetsWithoutData(batch)
    /\ Len(Processed(batch)) <= Len(Combinations(batch))
    /\ Processed(batch) = SubSeq(Combinations(batch), 1, Len(Processed(batch)))
    /\ batch.pc \in {"returned", "exit"} => Processed(batch) = Combinations(batch)

\* A batch over that asked for an asset without data, skipped it and
\* went through a combination of another asset to its end.
C16_Witness ==
    /\ batch.pc = "exit"
    /\ batch.skipped # <<>>
    /\ AssetsWithoutData(batch) # {}
    /\ \E k \in 1..Len(batch.trace) : batch.trace[k].ok

\* C17: a combination with optimization enabled whose optimize returned,
\* in an environment where no step fails, goes optimize, then
\* set_optimized_params with the best parameters, then one run_backtest
\* with these same parameters, which the cache then holds.
C17_OrchestrationOrder ==
    \A k \in 1..Len(batch.trace) :
        LET c == batch.trace[k]
        IN (batch.env = "none" /\ c.steps # <<>> /\ c.steps[1].op = "optimize") =>
              /\ Len(c.steps) >= 3
              /\ c.steps[2].op = "set" /\ c.steps[2].err = "none"
              /\ c.steps[3].op = "run"
              /\ c.steps[2].arg = c.steps[1].arg
              /\ c.steps[3].arg = c.steps[1].arg
              /\ \A j \in 4..Len(c.steps) : c.steps[j].op # "run"
              /\ c.steps[1].arg.ty = "dict"

\* ------------------------------------------------- the strategies' claims
\* The last next() asked for an entry while a position was open: the
\* broker is about to process a bar with a trade open and nothing queued
\* but entry orders.
EntryRequestedWhileOpen ==
    /\ pc = "loop"
    /\ NextBar <= N
    /\ broker.trades # <<>>
    /\ broker.orders # <<>>
    /\ \A k \in 1..Len(broker.orders) : broker.orders[k].parent = 0

\* C18: an entry requested while a position is open does nothing: when
\* the broker processes it the open trades, the closed trades and the
\* cash are what they were, and no error is raised.
C18_EntryWhileOpenIsNoop ==
    [][EntryRequestedWhileOpen =>
          /\ broker'.trades = broker.trades
          /\ broker'.closed = broker.closed
          /\ broker'.cash = broker.cash
          /\ error' = "none"]_vars

\* FVGStrategy.next is about to run on a bar where it holds no position
\* and the size it computes for an entry rounds to no unit at all.
SizeRoundsToNothing ==
    /\ pc = "next"
    /\ strategy = "FVGStrategy"
    /\ PositionSize(broker) = 0
    /\ i >= params.atr_period
    /\ ~IsNaN(AtrFunc(data, params.atr_period, i))
    /\ RoundHalfEven(FvgPositionSize(params, data, i, broker)) <= 0

\* C19: when the size computed for an entry is not positive, also after
\* its rounding to a whole number, the bar places no order, changes no
\* trade and raises nothing.
C19_SizingSafety ==
    [][SizeRoundsToNothing =>
          /\ broker'.orders = broker.orders
          /\ broker'.trades = broker.trades
          /\ error' = "none"
          /\ pc' = "loop"]_vars

Triggered(bar, t) ==
    \/ t.sl # 0 /\ (IF t.size > 0 THEN bar.l <= t.sl ELSE bar.h >= t.sl)
    \/ t.tp # 0 /\ (IF t.size > 0 THEN bar.h >= t.tp ELSE bar.l <= t.tp)

\* A trade was closed by its stop-loss or take-profit order on bar k.
StoppedOn(b, k) ==
    \E j \in 1..Len(b.closed) : b.closed[j].xbar = k /\ b.closed[j].by \in {"sl", "tp"}

\* C21 as claimed: per-bar event order.  next is entered at a bar only
\* after the bar's high/low was held against the stop-loss and take-profit
\* of the position, and only if neither was triggered on that bar.
C21_PerBarEventOrder ==
    [][(pc' = "next" /\ pc # "next") =>
          /\ pc = "loop" /\ broker' = BrokerNext(broker, data[i'], i').b
          /\ \A j \in 1..Len(broker'.trades) : ~Triggered(data[i'], broker'.trades[j])
          /\ ~StoppedOn(broker', i')]_vars

\* C21 as it holds: on every bar of the loop the broker's pass over the
\* orders, stop-loss and take-profit orders included, comes before next,
\* so that no trade next finds open has its stop or target within the bar;
\* and next is invoked on the bar whether or not a stop or target was
\* triggered, unless the equity ran out on that bar.
C21_StopsCheckedBeforeNext ==
    [][/\ (pc' = "next" /\ pc # "next") =>
             /\ pc = "loop" /\ broker' = BrokerNext(broker, data[i'], i').b
             /\ \A j \in 1..Len(broker'.trades) : ~Triggered(data[i'], broker'.trades[j])
       /\ (pc = "loop" /\ i' # i) =>
             (pc' = "next" \/ (pc' = "stats" /\ equity'[i'] = 0))
       /\ (pc = "next" /\ pc' # "next") =>
             /\ i' = i
             /\ st' = WrapperNext(strategy, params, data, i, broker, st).st]_vars

\* next is entered on a bar on which the stop-loss or the take-profit of
\* the position was triggered.
C21_Witness == pc = "next" /\ StoppedOn(broker, i)

\* ------------------------------------------------------ the search's claims
\* The search is left to end: an evaluation or the return is taken as long
\* as one is possible.
SpecOptimizeFair == InitOptimize /\ [][NextOptimize]_vars /\ WF_vars(NextOptimize)

\* The caller calls optimize again with the same strategy, data and
\* param_grid; what the first call produced is kept for comparison.
OptimizeAgain ==
    /\ opt.pc \in {"returned", "raised"}
    /\ runNo = 1
    /\ runNo' = 2
    /\ firstOutcome' = opt
    /\ opt' = NewOptimizer(opt.grid)
    /\ error' = "none"
    /\ UNCHANGED <<wrapped, batch, store, optimizers, calls, strategy, params, data, cash,
                   commission, libFails, pc, i, start, broker, equity, st, stats>>

InitOptimizeTwice ==
    /\ InitOptimize
    /\ opt = NewOptimizer([n1 |-> {1}, n2 |-> {2, 4}])
NextOptimizeTwice == OptEvaluate \/ OptReturn \/ OptimizeAgain
SpecOptimizeTwice == InitOptimizeTwice /\ [][NextOptimizeTwice]_vars

\* The point x takes every parameter from its list in the grid.
InGrid(x, grid) == x.n1 \in grid.n1 /\ x.n2 \in grid.n2

\* The Cartesian product of the lists of the grid.
Product(grid) == {[n1 |-> a, n2 |-> b] : a \in grid.n1, b \in grid.n2}

\* The points of the rows of a score surface.
Points(heatmap_df) ==
    {[n1 |-> heatmap_df[j].n1, n2 |-> heatmap_df[j].n2] : j \in 1..Len(heatmap_df)}

\* C22: every parameter set the search evaluates, every row of the score
\* surface and the best parameter set returned take each parameter from
\* its list of candidates in param_grid.
C22_CandidateDomain ==
    /\ \A j \in 1..Len(opt.xv) : InGrid(opt.xv[j], opt.grid)
    /\ opt.pc = "returned" =>
          /\ InGrid(opt.best_params, opt.grid)
          /\ \A x \in Points(opt.heatmap_df) : InGrid(x, opt.grid)

\* C23: a grid whose product is small is searched exhaustively: every
\* element of the product is evaluated exactly once and the score surface
\* returned has one row per element of the product.
C23_ExhaustiveGrid ==
    opt.pc = "returned" =>
        /\ Points(opt.heatmap_df) = Product(opt.grid)
        /\ Len(opt.heatmap_df) = Cardinality(Product(opt.grid))
        /\ \A j, k \in 1..Len(opt.xv) : opt.xv[j] = opt.xv[k] => j = k

C25_SearchDeterminism ==
    (runNo = 2 /\ opt.pc = "returned" /\ firstOutcome.pc = "returned") =>
        /\ opt.best_params = firstOutcome.best_params
        /\ opt.heatmap_df = firstOutcome.heatmap_df

\* The rows of the surface holding its highest score.
TopRows(heatmap_df) ==
    {j \in 1..Len(heatmap_df) :
        \A k \in 1..Len(heatmap_df) : heatmap_df[j].Performance >= heatmap_df[k].Performance}

\* C26: tie-break.  Of the evaluated candidates sharing the highest score
\* the one returned is the first in the order of enumeration of the grid,
\* which is the order of the rows of the surface.
C26_TieBreak ==
    opt.pc = "returned" =>
        \A j \in TopRows(opt.heatmap_df) :
            (\A k \in TopRows(opt.heatmap_df) : j <= k) =>
                /\ opt.best_params.n1 = opt.heatmap_df[j].n1
                /\ opt.best_params.n2 = opt.heatmap_df[j].n2

CandidateSets(s) ==
    CASE s = "PriceLevelStrategy" -> {[lookback_period |-> 2], [lookback_period |-> 3]}
      [] s = "FVGStrategy" ->
            {[atr_period |-> 2, sl_atr_multiplier |-> 2, tp_atr_multiplier |-> 4,
              fvg_expiry |-> e, risk_percentage |-> <<2, 100>>] : e \in {1, 2}}
      [] OTHER -> ParamsOf(s)

\* What a run of the search leaves: how it ended, the ledger, the open
\* trades and the equity of every bar, from which its score is computed.
CandidateOutcome ==
    [pc |-> pc, error |-> error, params |-> params, broker |-> broker, equity |-> equity,
     between |-> <<>>]

InitCandidates ==
    /\ strategy \in {"BuyAndHold", "PriceLevelStrategy", "FVGStrategy"}
    /\ params \in CandidateSets(strategy)
    /\ data \in SeriesOf(strategy)
    /\ cash \in CashOf(strategy)
    /\ commission = 1
    /\ libFails = "unknown"
    /\ wrapped = FALSE
    /\ runNo = 1
    /\ pc = "call"
    /\ i = 0
    /\ start = 0
    /\ broker = NewBroker(cash)
    /\ equity = [k \in 1..N |-> NoEquity]
    /\ st = NewInstance(strategy)
    /\ stats = None
    /\ error = "none"
    /\ firstOutcome = [pc |-> "none", error |-> "none", stats |-> None]
    /\ opt = [NewOptimizer([n1 |-> {1}, n2 |-> {2}]) EXCEPT !.pc = "idle"]
    /\ store = Absent
    /\ optimizers = [n \in Instances |-> NoOptimizer]
    /\ calls = <<>>
    /\ batch = IdleBatch

\* The run of one parameter set is over and the search runs the next: any
\* parameter set after the first run, the first one again after the second.
NextCandidate ==
    /\ pc = "stats"
    /\ runNo < 3
    /\ runNo' = runNo + 1
    /\ firstOutcome' =
          IF runNo = 1 THEN CandidateOutcome
          ELSE [firstOutcome EXCEPT
                  !.between = Append(@, [params |-> params, st |-> st,
                                         fills |-> Len(broker.closed) + Len(broker.trades)])]
    /\ \E x \in (IF runNo = 1 THEN CandidateSets(strategy) ELSE {firstOutcome.params}) :
          params' = x
    /\ pc' = "call"
    /\ UNCHANGED <<wrapped, batch, store, optimizers, calls, opt, strategy, data, cash,
                   commission, libFails, i, start, broker, equity, st, stats, error>>

NextCandidates == StartRun \/ BrokerStep \/ StrategyStep \/ LoopEnd \/ NextCandidate
SpecCandidates == InitCandidates /\ [][NextCandidates]_vars

\* C27: candidate independence.  Every run of the search starts from a new
\* strategy instance and a new broker holding the initial cash, and the
\* run of a parameter set after other parameter sets were run leaves what
\* its run before them left: the same end, ledger, open trades and equity.
C27_CandidateIndependence ==
    /\ (pc = "loop" /\ i = 0) =>
          /\ st = NewInstance(strategy)
          /\ broker = NewBroker(cash)
    /\ (runNo = 3 /\ pc \in {"stats", "raised", "except"}) =>
          [CandidateOutcome EXCEPT !.between = firstOutcome.between] = firstOutcome

\* The final run is over; the run between the two runs of the parameter
\* set was of another parameter set, traded and left state on its instance.
C27_Witness ==
    /\ runNo = 3
    /\ pc = "stats"
    /\ Len(broker.closed) >= 1
    /\ firstOutcome.between[1].params # params
    /\ firstOutcome.between[1].fills >= 1
    /\ firstOutcome.between[1].st # NewInstance(strategy)

\* ------------------------------------------------ configuration errors
\* The entry asks for PriceLevelStrategy with a lookback of 0 or less.
InvalidLookback(e) ==
    /\ "name" \in DOMAIN e /\ e.name = "PriceLevelStrategy"
    /\ "params" \in DOMAIN e /\ e.params.items.lookback_period.v <= 0

\* C29: invalid lookback.  A run of PriceLevelStrategy with a lookback of
\* 0 or less ends in init with the ValueError, no bar processed and no
\* order placed; in a batch the exception does not leave the function, the
\* combination is recorded as failed with it, its message is collected, no
\* other combination carries it, and the combinations gone through are
\* still the batch's in their order, all of them when the function returns.
C29_InvalidLookback ==
    /\ (strategy = "PriceLevelStrategy" /\ params.lookback_period <= 0
            /\ pc \notin {"idle", "call"}) =>
          /\ pc \in {"except", "raised"}
          /\ error = "ValueError:lookback"
          /\ i = 0
          /\ broker = NewBroker(cash)
          /\ \A k \in 1..N : equity[k] = NoEquity
    /\ batch.error # "ValueError:lookback"
    /\ \A k \in 1..Len(batch.trace) :
          LET c == batch.trace[k]
              failed == ~c.ok /\ c.steps[Len(c.steps)].err = "ValueError:lookback"
          IN /\ InvalidLookback(batch.strategies[c.si]) =>
                   /\ failed
                   /\ c.steps[Len(c.steps)].op = "run"
                   /\ batch.runner = "core" =>
                         \E m \in 1..Len(batch.errors) :
                             batch.errors[m] = ErrorMsg("PriceLevelStrategy", c.a,
                                                        "ValueError:lookback")
             /\ failed => InvalidLookback(batch.strategies[c.si])
    /\ Processed(batch) = SubSeq(Combinations(batch), 1, Len(Processed(batch)))
    /\ batch.pc \in {"returned", "exit"} => Processed(batch) = Combinations(batch)

\* A batch that returned after a combination failed with the invalid
\* lookback and a later one went through.
C29_Witness ==
    /\ batch.pc \in {"returned", "exit"}
    /\ \E k, m \in 1..Len(batch.trace) :
          /\ k < m
          /\ InvalidLookback(batch.strategies[batch.trace[k].si])
          /\ ~batch.trace[k].ok
          /\ batch.trace[m].ok

\* SmaCross.get_optimization_ranges: the domain the strategy declares for
\* its parameters.
GetOptimizationRanges ==
    [n1 |-> [min |-> 5, max |-> 15, step |-> 5],
     n2 |-> [min |-> 15, max |-> 30, step |-> 5]]

\* Every parameter lies between the min and max declared for it.
InDomain(p, ranges) ==
    \A k \in DOMAIN p : ranges[k].min <= p[k] /\ p[k] <= ranges[k].max

\* C30: out-of-domain parameter.  A run of SmaCross asked for with a
\* parameter outside the declared domain ends at init with an error: no
\* bar is processed, no order placed, no statistics made.
C30_OutOfDomainRejected ==
    (strategy = "SmaCross" /\ ~InDomain(params, GetOptimizationRanges)
        /\ pc \notin {"idle", "call"}) =>
        /\ pc \in {"except", "raised"}
        /\ error # "none"
        /\ i = 0
        /\ broker = NewBroker(cash)
        /\ stats = None

\* ------------------------------------------------- end-to-end scenarios
\* tests/test_strategy.py: create_test_data(n) and Backtest(data, SmaCross,
\* cash=10000, commission=.002).run().  Prices are in tenths of the test's
\* currency unit: the close rises by 1 a bar from 1000, high and low are
\* 5 above and below it.

\* The bars create_test_data builds by default.
TestBars == 100

create_test_data(n) ==
    [k \in 1..n |-> [t |-> 100 + k, o |-> 999 + k, h |-> 1004 + k, l |-> 994 + k,
                     c |-> 999 + k]]

\* The windows of SmaCross, short below long: small ones and the class's
\* own n1 = 10, n2 = 20, which the test runs.
RisingWindows == {[n1 |-> 1, n2 |-> 2], [n1 |-> 2, n2 |-> 3], [n1 |-> 10, n2 |-> 20]}

InitRising ==
    /\ strategy = "SmaCross"
    /\ params \in RisingWindows
    /\ data \in {create_test_data(n) : n \in (1..MaxBars) \cup {TestBars}}
    /\ cash = 100 * MaxCash * MU
    /\ commission \in {0, 1}
    /\ libFails = "unknown"
    /\ wrapped = FALSE
    /\ runNo = 1
    /\ pc = "call"
    /\ i = 0
    /\ start = 0
    /\ broker = NewBroker(cash)
    /\ equity = [k \in 1..N |-> NoEquity]
    /\ st = NewInstance(strategy)
    /\ stats = None
    /\ error = "none"
    /\ firstOutcome = [pc |-> "none", error |-> "none", stats |-> None]
    /\ opt = [NewOptimizer([n1 |-> {1}, n2 |-> {2}]) EXCEPT !.pc = "idle"]
    /\ store = Absent
    /\ optimizers = [n \in Instances |-> NoOptimizer]
    /\ calls = <<>>
    /\ batch = IdleBatch

SpecRising == InitRising /\ [][NextBare]_vars

\* The units bought and sold short in the run: the ledger and the open trades.
Longs(b) ==
    Cardinality({j \in 1..Len(b.closed) : b.closed[j].size > 0})
        + Cardinality({j \in 1..Len(b.trades) : b.trades[j].size > 0})
Shorts(b) ==
    Cardinality({j \in 1..Len(b.closed) : b.closed[j].size < 0})
        + Cardinality({j \in 1..Len(b.trades) : b.trades[j].size < 0})

\* C31 as claimed: on the rising series the run of SmaCross with
\* n1 < n2 ends without error with at least one long trade, no short
\* trade, and a final equity not below the cash less the commissions.
C31_RisingSeriesTrades ==
    /\ pc \notin {"except", "raised"}
    /\ (pc = "stats" /\ N = TestBars) =>
          /\ Longs(broker) >= 1
          /\ Shorts(broker) = 0
          /\ equity[N] >= cash - SumSeq([j \in 1..Len(broker.closed) |->
                                            broker.closed[j].commissions])

\* C31 as it holds: on the rising series the bar loop of SmaCross with
\* n1 < n2 ends without an exception, no order is ever placed, there is no
\* trade, long or short, and the equity of every bar processed is the
\* initial cash.
C31_RisingSeriesNoCrossing ==
    /\ pc \notin {"except", "raised"} /\ error = "none"
    /\ broker.orders = <<>>
    /\ Longs(broker) = 0 /\ Shorts(broker) = 0
    /\ \A k \in 1..N : equity[k] \in {NoEquity, cash}
    /\ pc = "stats" => (i = N \/ (i = 0 /\ start > N))
    /\ (pc = "stats" /\ i = N) => equity[N] = cash

\* The test's run is over: 100 bars, the windows 10 and 20, next called on
\* every bar from the 21st.
C31_Witness ==
    /\ pc = "stats"
    /\ N = TestBars
    /\ params = [n1 |-> 10, n2 |-> 20]
    /\ i = N
    /\ start = 21
    /\ equity[start] = cash

\* An all-flat series: every bar opens, peaks, bottoms and closes at one
\* price.
FlatSeries(s) ==
    {MakeSeries([k \in 1..n |-> <<x, x, x, x>>]) : n \in MinBars(s)..MaxBars, x \in {1, 2}}

InitFlat ==
    /\ strategy \in Strategies
    /\ params \in ParamsOf(strategy)
    /\ data \in FlatSeries(strategy)
    /\ cash \in CashOf(strategy)
    /\ commission \in {0, 1}
    /\ libFails = "unknown"
    /\ wrapped \in BOOLEAN
    /\ runNo = 1
    /\ pc = "call"
    /\ i = 0
    /\ start = 0
    /\ broker = NewBroker(cash)
    /\ equity = [k \in 1..N |-> NoEquity]
    /\ st = NewInstance(strategy)
    /\ stats = None
    /\ error = "none"
    /\ firstOutcome = [pc |-> "none", error |-> "none", stats |-> None]
    /\ opt = [NewOptimizer([n1 |-> {1}, n2 |-> {2}]) EXCEPT !.pc = "idle"]
    /\ store = Absent
    /\ optimizers = [n \in Instances |-> NoOptimizer]
    /\ calls = <<>>
    /\ batch = IdleBatch

SpecFlat == InitFlat /\ [][Next]_vars

\* The run over the flat series has placed no order and made no trade, the
\* equity of every bar processed is the initial cash, and the statistics,
\* once made, count no trade and hold the initial cash at every bar.
FlatRun ==
    /\ broker.orders = <<>>
    /\ ZeroTrades
    /\ \A k \in 1..N : equity[k] \in {NoEquity, cash}
    /\ stats.kind # "none" =>
          /\ stats.NTrades = 0
          /\ \A k \in 1..N : stats.curve[k] = [t |-> data[k].t, e |-> cash]

\* C32 as claimed: a run of any strategy over an all-flat series makes zero
\* trades and its equity is the initial cash at every bar.
C32_FlatSeriesNoTrades == FlatRun

\* C32 as it holds: a run of any strategy but BuyAndHold over an all-flat
\* series places no order, makes zero trades, and its equity is the initial
\* cash at every bar.
C32_FlatSeriesNoSignal == strategy # "BuyAndHold" => FlatRun

\* SmaCross has been through every bar of a flat series of MaxBars bars,
\* and the library's statistics hold the curve.
C32_Witness ==
    /\ strategy = "SmaCross"
    /\ N = MaxBars
    /\ i = N
    /\ stats.kind = "library"
    /\ stats.curve[N].e = cash

\* ------------------------------------------ one pair of the batch, optimized
\* The body of the strategy loop for one (strategy, asset) whose entry has
\* optimize: true, with the runs of the search made bar by bar: the
\* optimizer is built on its data, bt.optimize runs candidates on
\* Backtest(self.data, self.strategy, cash=1000000, commission=.002), the
\* best parameters are written to the cache and run_backtest makes the
\* final run with the batch's settings.

\* cash=1000000 of the optimizer's Backtest, in the model's scale: far
\* above the cash of the batch's settings.
OptimizerCash == 100 * MaxCash * MU
\* commission=.002 of the optimizer's Backtest, in the model's unit 1/CD.
OptimizerCommission == 1

\* As a bug would have it: the optimizer is given the whole frame.
OptimizerDataWhole(runner, features_df) == features_df
\* The data the optimizer is constructed with: the first half of the
\* frame in tools/core.py, the whole frame in main.py.
OptimizerData(runner, features_df) ==
    IF runner = "core" THEN SubSeq(features_df, 1, Len(features_df) \div 2)
    ELSE features_df

\* As a bug would have it: the search simulates with the batch's settings.
OptimizerBacktestOfSettings(d, settings) ==
    [data |-> d, cash |-> settings.initial_cash, commission |-> settings.commission_pct,
     wrapped |-> FALSE]
\* The Backtest of StrategyOptimizer.optimize: the strategy class as it
\* is, the cash and commission of the source text.
OptimizerBacktest(d, settings) ==
    [data |-> d, cash |-> OptimizerCash, commission |-> OptimizerCommission,
     wrapped |-> FALSE]

\* The Backtest of run_backtest: the wrapper class, the cash and the
\* commission its caller passes from the settings.
RunnerBacktest(d, settings) ==
    [data |-> d, cash |-> settings.initial_cash, commission |-> settings.commission_pct,
     wrapped |-> TRUE]

\* bt.run(**x) on the Backtest bt.
Simulate(bt, x) ==
    /\ data' = bt.data
    /\ cash' = bt.cash
    /\ commission' = bt.commission
    /\ wrapped' = bt.wrapped
    /\ params' = x
    /\ pc' = "call"
    /\ stats' = None
    /\ error' = "none"
    /\ UNCHANGED <<strategy, i, start, broker, equity, st, runNo, firstOutcome, opt>>

\* The except clause of the body.
PairExcept(b, e, steps) == [b EXCEPT !.pc = "except", !.error = e, !.steps = b.steps \o steps]

\* The parameter sets the search has run.
Tried(b) == {b.tried[k].x : k \in 1..Len(b.tried)}

\* optimizer = StrategyOptimizer(...); optimizer.optimize(param_ranges):
\* Backtest refuses data without rows; otherwise the first candidate runs.
PairOptimize ==
    /\ batch.pc = "body"
    /\ \E d \in {OptimizerData(batch.runner, batch.features_df)} :
          IF Len(d) = 0
          THEN /\ batch' = PairExcept(batch, "ValueError:empty",
                                      <<Step("optimize", PyNone, "ValueError:empty")>>)
               /\ UNCHANGED runVars
          ELSE /\ batch' = [batch EXCEPT !.pc = "search"]
               /\ \E x \in Product(batch.param_ranges) :
                     Simulate(OptimizerBacktest(d, batch.settings), x)
               /\ UNCHANGED libFails
    /\ UNCHANGED <<store, optimizers, calls>>

\* The run of a candidate is over: its equity curve, from which its score
\* is computed, is kept, or what it raised leaves optimize.
PairCandidate ==
    /\ batch.pc = "search"
    /\ pc \in {"stats", "raised", "except"}
    /\ \E f \in (IF libFails = "unknown" THEN {"yes", "no"} ELSE {libFails}) :
          /\ libFails' = (IF pc = "stats" /\ Len(broker.closed) = 0 THEN f ELSE libFails)
          /\ batch' =
                IF pc # "stats"
                THEN PairExcept(batch, error, <<Step("optimize", PyNone, error)>>)
                ELSE IF Len(broker.closed) = 0 /\ f = "yes"
                THEN PairExcept(batch, "ValueError:regression",
                                <<Step("optimize", PyNone, "ValueError:regression")>>)
                ELSE [batch EXCEPT !.pc = "scored",
                                   !.tried = Append(@, [x |-> params,
                                                        bt |-> [data |-> data, cash |-> cash,
                                                                commission |-> commission,
                                                                wrapped |-> wrapped],
                                                        curve |-> EquityCurve(data, equity, cash)])]
    /\ pc' = "idle"
    /\ UNCHANGED <<store, optimizers, calls, opt, strategy, params, data, cash, commission, wrapped,
                   i, start, broker, equity, st, stats, error, runNo, firstOutcome>>

\* The search runs a parameter set it has not run yet.
PairNext ==
    /\ batch.pc = "scored"
    /\ Len(batch.tried) < MaxTries
    /\ \E x \in Product(batch.param_ranges) \ Tried(batch) :
          Simulate(OptimizerBacktest(OptimizerData(batch.runner, batch.features_df),
                                     batch.settings), x)
    /\ batch' = [batch EXCEPT !.pc = "search"]
    /\ UNCHANGED <<store, optimizers, calls, libFails>>

\* optimize returns the parameter set it scored best, one of those it
\* ran; the body writes it to the cache and calls run_backtest on the
\* whole frame with the settings.
PairBest ==
    /\ batch.pc = "scored"
    /\ \E k \in 1..Len(batch.tried) :
       \E best \in {BestAssigned(batch.runner, BestParams(batch.tried[k].x, batch.numbers))} :
       \E r \in {SetOptimizedParams(store, EmptyDict, "SmaCross", "A", best)} :
          /\ store' = r.saved.doc
          /\ calls' = Append(calls, [inst |-> 1, s |-> "SmaCross", a |-> "A", p |-> best,
                                     err |-> r.saved.err, before |-> store])
          /\ IF r.saved.err # "none"
             THEN /\ batch' = [PairExcept(batch, r.saved.err,
                                          <<Step("optimize", best, "none"),
                                            Step("set", best, r.saved.err)>>)
                                  EXCEPT !.best = k]
                  /\ UNCHANGED runVars
             ELSE /\ batch' = [batch EXCEPT !.pc = "run", !.best = k,
                                            !.steps = <<Step("optimize", best, "none"),
                                                        Step("set", best, "none"),
                                                        Step("run", best, "none")>>]
                  /\ Simulate(RunnerBacktest(batch.features_df, batch.settings),
                              KeywordArguments(best))
                  /\ UNCHANGED libFails
    /\ UNCHANGED optimizers

\* run_backtest has returned or raised.
PairRunReturned ==
    /\ batch.pc = "run"
    /\ pc \in {"done", "raised"}
    /\ batch' = IF pc = "raised" THEN PairExcept(batch, error, <<>>)
                ELSE [batch EXCEPT !.pc = "saved"]
    /\ pc' = "idle"
    /\ UNCHANGED <<store, optimizers, calls, opt, strategy, params, data, cash, commission, wrapped,
                   libFails, i, start, broker, equity, st, stats, error, runNo, firstOutcome>>

\* The bars of the longest half of a frame.
PairHalf == MaxBars - 1

\* Frames of rising and falling bars: every short one, and long ones of
\* any first half and a second half that goes up and down or down and up.
PairFrames ==
    LET Up == <<1, 2, 1, 2>>
        Down == <<2, 2, 1, 1>>
        Tails == {[k \in 1..PairHalf |-> IF k % 2 = 1 THEN Up ELSE Down],
                  [k \in 1..PairHalf |-> IF k % 2 = 1 THEN Down ELSE Up]}
    IN UNION {{MakeSeries(x) : x \in SeqsOver({Up, Down}, n)} : n \in 1..PairHalf}
       \cup {MakeSeries(x \o y) : x \in SeqsOver({Up, Down}, PairHalf), y \in Tails}

\* The settings of a batch: initial_cash and commission_pct.  The last
\* ones are of a cash that buys no unit at any price of the frames.
PairSettings ==
    {[initial_cash |-> MaxCash * MU, commission_pct |-> 0],
     [initial_cash |-> 2 * MaxCash * MU, commission_pct |-> 1],
     [initial_cash |-> MU, commission_pct |-> 1]}

InitPair ==
    /\ strategy = "SmaCross"
    /\ params = [n1 |-> 1, n2 |-> 2]
    /\ data = MakeSeries(<<<<1, 2, 1, 2>>>>)
    /\ cash = MaxCash * MU
    /\ commission = 0
    /\ libFails = "unknown"
    /\ wrapped = TRUE
    /\ runNo = 1
    /\ pc = "idle"
    /\ i = 0
    /\ start = 0
    /\ broker = NewBroker(cash)
    /\ equity = [k \in 1..N |-> NoEquity]
    /\ st = NewInstance(strategy)
    /\ stats = None
    /\ error = "none"
    /\ firstOutcome = [pc |-> "none", error |-> "none", stats |-> None]
    /\ opt = [NewOptimizer([n1 |-> {1}, n2 |-> {2}]) EXCEPT !.pc = "idle"]
    /\ store = Absent
    /\ optimizers = [n \in Instances |-> NoOptimizer]
    /\ calls = <<>>
    /\ batch \in [runner : {"core", "main"},
                  numbers : {"int", "int64"},
                  features_df : PairFrames,
                  settings : PairSettings,
                  param_ranges : {[n1 |-> {1}, n2 |-> {2, 3}]},
                  pc : {"body"},
                  tried : {<<>>},
                  best : {0},
                  steps : {<<>>},
                  error : {"none"}]

NextPair ==
    \/ PairOptimize
    \/ StartRun
    \/ BrokerStep
    \/ StrategyStep
    \/ LoopEnd
    \/ PairCandidate
    \/ PairNext
    \/ PairBest
    \/ ComputeStats
    \/ HandleValueError
    \/ GenerateReport
    \/ PairRunReturned

SpecPair == InitPair /\ [][NextPair]_vars

\* The first floor(n/2) bars of the n-bar frame.
FirstHalf(df) == SubSeq(df, 1, Len(df) \div 2)

\* C33: in tools/core.py the runs of the optimization are over the first
\* floor(n/2) bars of the n-bar feature frame and no other bar, and the
\* final run is over all n bars.
C33_HeldOutPrefix ==
    batch.runner = "core" =>
        /\ batch.pc = "search" => data = FirstHalf(batch.features_df)
        /\ \A k \in 1..Len(batch.tried) :
              /\ batch.tried[k].bt.data = FirstHalf(batch.features_df)
              /\ Len(batch.tried[k].curve) = Len(batch.features_df) \div 2
        /\ batch.pc \in {"run", "saved"} => data = batch.features_df
        /\ batch.pc = "saved" => Len(stats.curve) = Len(batch.features_df)

\* The final run of tools/core.py is over, on a frame of which the search
\* ran the first half with two parameter sets, and it traded.
C33_Witness ==
    /\ batch.runner = "core"
    /\ batch.pc = "saved"
    /\ Len(batch.features_df) = 2 * PairHalf
    /\ Len(batch.tried) = 2
    /\ Len(batch.tried[1].curve) = PairHalf
    /\ Len(stats.curve) = 2 * PairHalf
    /\ stats.NTrades > 0

\* --------------------------------------------- the cache without optimization
\* The steps of the combination the batch is in, or went through as the
\* k-th, have neither optimize nor a write of the cache.
OnlyReadsCache(steps) ==
    /\ Len(steps) >= 2
    /\ steps[1].op = "get"
    /\ steps[2].op = "run"
    /\ \A j \in 1..Len(steps) : steps[j].op \notin {"optimize", "heatmap", "set"}

\* The combinations that got as far as writing the cache.
Writers(b) ==
    Cardinality({k \in 1..Len(b.trace) :
                    \E j \in 1..Len(b.trace[k].steps) : b.trace[k].steps[j].op = "set"})
        + (IF \E j \in 1..Len(b.steps) : b.steps[j].op = "set" THEN 1 ELSE 0)

\* C34: a combination whose entry has optimize false (or no optimize key)
\* and whose body got to its run never calls optimize and never writes
\* the cache; its run has the parameter set the cache holds for the
\* strategy and the asset when that is a non-empty one, and the params
\* of the entry otherwise.
C34_CacheWithoutOptimization ==
    /\ Len(calls) = Writers(batch)
    /\ \A k \in 1..Len(batch.trace) :
          LET c == batch.trace[k]
              entry == batch.strategies[c.si]
          IN (~ConfigGet(entry, "optimize", FALSE) /\ c.steps[1].op # "body") =>
                /\ OnlyReadsCache(c.steps)
                /\ c.steps[2].arg =
                      IF c.steps[1].arg.ty = "dict" /\ DOMAIN c.steps[1].arg.items # {}
                      THEN c.steps[1].arg ELSE entry.params
    /\ (batch.pc = "run" /\ ~ConfigGet(batch.strategies[batch.si], "optimize", FALSE)) =>
          LET entry == batch.strategies[batch.si]
              cached == GetOptimizedParams(LoadOptimizedParams(store).value, entry.name,
                                           batch.assets[batch.ai])
              used == IF cached.ty = "dict" /\ DOMAIN cached.items # {}
                      THEN cached ELSE entry.params
          IN /\ OnlyReadsCache(batch.steps)
             /\ opt.pc = "idle"
             /\ batch.steps[1].arg = cached
             /\ batch.steps[2].arg = used
             /\ pc = "call" => params = KeywordArguments(used)

\* Two combinations without optimization got to their run: one ran to its
\* end with the parameter set of the cache, which is not the entry's, the
\* other, for which the cache holds nothing, ran with the entry's.
C34_Witness ==
    /\ batch.pc = "exit"
    /\ \E k \in 1..Len(batch.trace) :
          /\ batch.trace[k].ok
          /\ batch.trace[k].steps[1].op = "get"
          /\ batch.trace[k].steps[2].arg = batch.trace[k].steps[1].arg
          /\ batch.trace[k].steps[2].arg # batch.strategies[batch.trace[k].si].params
    /\ \E k \in 1..Len(batch.trace) :
          /\ batch.trace[k].steps[1].op = "get"
          /\ batch.trace[k].steps[1].arg = PyNone
          /\ batch.trace[k].steps[2].arg = batch.strategies[batch.trace[k].si].params

\* ------------------------------------------------ the scope of the fallback
\* C35: the handler of run_backtest takes the way of the neutral statistics
\* only for the ValueError of the regression; every other ValueError the
\* simulation raised leaves run_backtest as it is, and no statistics are
\* returned for it.
C35_FallbackScope ==
    [][pc = "except" =>
          /\ pc' \in {"report", "raised"}
          /\ (pc' = "report" \/ error' # error) => error = "ValueError:regression"
          /\ error # "ValueError:regression" =>
                /\ pc' = "raised"
                /\ error' = error
                /\ stats' = None]_vars

\* A ValueError that is not the regression's (the lookback that
\* PriceLevelStrategy.init refuses) went through the handler and has left
\* run_backtest, which returned no statistics.
C35_Witness ==
    /\ pc = "raised"
    /\ error = "ValueError:lookback"
    /\ strategy = "PriceLevelStrategy"
    /\ stats = None

\* -------------------------------------------------- the life of a gap
\* The gaps of the list that an order was placed from.
UsedGaps(fvgs) == {j \in 1..Len(fvgs) : fvgs[j].used}

\* Bar m (index m - 1) traded completely through the gap f.
TradedThrough(d, m, f) ==
    IF f.type = "bullish" THEN d[m].l < f.bottom ELSE d[m].h > f.top

\* C36: in every call of FVGStrategy.next an order is placed exactly when
\* one gap is marked used, no more than one; the gap was not used before;
\* the bar is none after created_at + fvg_expiry and no bar since the
\* gap's creation has traded completely through it; and a gap that was
\* marked used at a bar is not in the list after the next call.
C36_FvgLifecycle ==
    [][(strategy = "FVGStrategy" /\ pc = "next" /\ pc' # "next") =>
          /\ Cardinality(UsedGaps(st'.active_fvgs)) <= 1
          /\ ~wrapped =>
                (Len(broker'.orders) > Len(broker.orders) <=> UsedGaps(st'.active_fvgs) # {})
          /\ \A j \in UsedGaps(st'.active_fvgs) :
                LET f == st'.active_fvgs[j]
                IN /\ i - 1 <= f.created_at + params.fvg_expiry
                   /\ \A m \in (f.created_at + 1)..i : ~TradedThrough(data, m, f)
                   /\ \A h \in 1..Len(st.active_fvgs) :
                         (st.active_fvgs[h].type = f.type
                          /\ st.active_fvgs[h].created_at = f.created_at)
                            => ~st.active_fvgs[h].used
          /\ \A h \in UsedGaps(st.active_fvgs) :
                \A j \in 1..Len(st'.active_fvgs) :
                   ~(st'.active_fvgs[j].type = st.active_fvgs[h].type
                     /\ st'.active_fvgs[j].created_at = st.active_fvgs[h].created_at)]_vars

\* An order with a stop was placed from a gap; the trade it opened is
\* closed, and the list has no gap marked used any more.
C36_Witness ==
    /\ strategy = "FVGStrategy"
    /\ pc = "loop"
    /\ Len(broker.closed) >= 1
    /\ broker.closed[1].sl # 0
    /\ UsedGaps(st.active_fvgs) = {}

\* ------------------------------------------- what the search's scores rest on
\* C37: whatever the batch's initial_cash and commission_pct, every
\* candidate of the search is simulated on the optimizer's data with the
\* optimizer's own cash and commission and the strategy class without the
\* wrapper, and is kept with the curve of that run; the settings and the
\* wrapper are those of the final run only.
C37_ScoringIndependentOfSettings ==
    /\ batch.pc = "search" =>
          /\ cash = OptimizerCash
          /\ commission = OptimizerCommission
          /\ ~wrapped
          /\ data = OptimizerData(batch.runner, batch.features_df)
    /\ \A k \in 1..Len(batch.tried) :
          /\ batch.tried[k].bt.cash = OptimizerCash
          /\ batch.tried[k].bt.commission = OptimizerCommission
          /\ ~batch.tried[k].bt.wrapped
          /\ batch.tried[k].curve[1].e = OptimizerCash
    /\ batch.pc = "run" =>
          /\ cash = batch.settings.initial_cash
          /\ commission = batch.settings.commission_pct
          /\ wrapped
          /\ params = batch.tried[batch.best].x

\* The final run of the best parameter set has returned under settings
\* that are not the optimizer's cash and commission, and on the bars the
\* search ran its returns are not those of the candidate's curve: the
\* score of the search is not the one of the run reported.
C37_Witness ==
    /\ batch.pc = "saved"
    /\ batch.settings.initial_cash # OptimizerCash
    /\ batch.settings.commission_pct # OptimizerCommission
    /\ \E j \in 1..Len(batch.tried[batch.best].curve) :
          Returns(batch.tried[batch.best].curve)[j] # Returns(stats.curve)[j]

\* ----------------------------------------------------------- a set that fails
\* The document right after the j-th call.
DocAfter(j) == IF j < Len(calls) THEN calls[j + 1].before ELSE store

\* C38: after a set_optimized_params(s, a, p) whose write raised, the
\* instance returns p from get_optimized_params(s, a) (until it is given
\* another value for the key), the document does not hold p, and the
\* document that was there before the call is no longer: what is left of
\* the file does not read as a document.
C38_FailedSet ==
    \A j \in 1..Len(calls) :
        calls[j].err # "none" =>
            /\ (\A k \in (j + 1)..Len(calls) :
                   ~(calls[k].inst = calls[j].inst /\ calls[k].s = calls[j].s
                     /\ calls[k].a = calls[j].a))
               => GetOptimizedParams(optimizers[calls[j].inst].optimized_params,
                                     calls[j].s, calls[j].a) = calls[j].p
            /\ DocAfter(j) = PartialText
            /\ LoadOptimizedParams(DocAfter(j)).err # "none"
            /\ calls[j].before.kind = "json" => DocAfter(j) # calls[j].before

\* A set raised over a document that held parameters, and the instance
\* now returns the value that was never written.
C38_Witness ==
    /\ Len(calls) >= 1
    /\ calls[Len(calls)].err = "TypeError"
    /\ calls[Len(calls)].before.kind = "json"
    /\ ~Serializable(calls[Len(calls)].p)
    /\ GetOptimizedParams(optimizers[calls[Len(calls)].inst].optimized_params,
                          calls[Len(calls)].s, calls[Len(calls)].a) = calls[Len(calls)].p
    /\ store = PartialText

\* ------------------------------------------------------- the two runners
\* C39: in main.py as in tools/core.py, with optimization enabled, what
\* is passed to set_optimized_params and to the final run is the best
\* name-to-value parameter set optimize returned, so that the steps of the
\* two runners and their arguments are the same.
C39_RunnersAgree ==
    batch.best # 0 =>
        /\ \A j \in 1..Len(batch.steps) :
              batch.steps[j].op \in {"optimize", "set", "run"}
                 => batch.steps[j].arg \in
                       {PyNone, BestParams(batch.tried[batch.best].x, batch.numbers)}
        /\ \A j \in 1..Len(batch.steps) :
              batch.steps[j].op = "set" /\ batch.numbers = "int" => batch.steps[j].err = "none"

====
